---- MODULE Spec2Model ----
(***************************************************************************)
(* cub3D: scene-file parser, map validator, observer set-up, collision     *)
(* model, DDA raycaster and frame loop, modelled from the C sources.       *)
(*                                                                         *)
(* Conventions                                                             *)
(*  - a C string is a sequence of one-character strings;                   *)
(*  - a NULL char* or char** is the empty sequence NULL: the program never *)
(*    stores an empty path and never allocates an empty row array;         *)
(*  - a double is a fixed-point integer in units of 1/FP.                  *)
(***************************************************************************)
EXTENDS Integers, Sequences, FiniteSets, TLC

VARIABLES
    caller,             \* "main" (src/main.c) or "test" (tests/test_parser.c)
    argc,               \* main's argument count
    usage_printed,      \* TRUE once main has printed its usage message
    pc,                 \* position of the running program
    config,             \* t_config
    map_lines,          \* parse_cub_file: map_lines_head, the list of lines
    parsing_map_phase,  \* parse_cub_file: 0 header mode, 1 grid mode
    last_line,          \* the line the last loop iteration read (trimmed)
    dup_seen,           \* history: a line repeating a stored identifier was read
    at_eof,             \* history: get_next_line returned NULL, the loop ended
    row_lost,           \* history: add_map_line returned without storing a row
    parse_ret,          \* parse_cub_file's return value, -1 before it returns
    allocd,             \* heap objects and descriptors currently live
    dblfree,            \* TRUE once an object was released while not live
    ran,                \* the later stages of main that have run
    exit_status,        \* status the process ended with, -1 while running
    game,               \* t_game_data without its config
    frame,              \* the columns rendered since the last key event
    nkeys,              \* key presses so far
    held,               \* the key of the last key event, "" before any
    reps,               \* the events the held key has delivered in a row
    teardown,           \* the release calls an exit handler made, in order
    tick,               \* the events of the render tick since the last key event
    key_budget,         \* key presses the session may see
    grid0,              \* the grid as assembled, before validate_map ran
    vret,               \* validate_map's last return value, -1 before any
    cret,               \* convert_map_lines_to_array's, -1 before any
    color_in,           \* the argument line_content of a parse_color call
    color_out,          \* what that parse_color call returned
    tex_in,             \* the arguments of a calculate_texture_x call
    tex_out,            \* what that call returned, -1 before it returns
    stash,              \* get_next_line: the pending data of the descriptor
    fd_data,            \* the bytes of the file the descriptor is open on
    offset,             \* the read offset of the descriptor
    queue               \* the files the test program has still to parse

vars == <<caller, argc, usage_printed, pc, config, map_lines, parsing_map_phase,
          last_line, dup_seen, at_eof, row_lost, parse_ret, allocd, dblfree, ran, exit_status,
          game, frame, nkeys, held, reps, teardown, tick, key_budget, grid0, vret,
          cret,
          color_in, color_out, tex_in, tex_out, stash, fd_data, offset, queue>>

parseVars ==
    <<map_lines, parsing_map_phase, last_line, parse_ret, dup_seen, at_eof,
      row_lost>>
gameVars == <<game, frame, nkeys, held, reps, teardown, tick>>
unitVars == <<vret, cret, color_in, color_out, tex_in, tex_out>>
readerVars == <<stash, fd_data, offset, queue>>

----------------------------------------------------------------------------
(* Bounds of the model *)

MaxMapLines == 3
ScreenW == 3
ScreenH == 4
DdaFuel == 12
MaxKeys == 2
MaxSessionKeys == 1
KeyRepeat == 6

----------------------------------------------------------------------------
(* Characters and strings *)

NULL == <<>>

Min(S) == CHOOSE x \in S : \A y \in S : x <= y
Max(S) == CHOOSE x \in S : \A y \in S : x >= y

Digits == <<"0", "1", "2", "3", "4", "5", "6", "7", "8", "9">>

FtIsdigit(c) == \E i \in 1..10 : Digits[i] = c

DigitVal(c) == (CHOOSE i \in 1..10 : Digits[i] = c) - 1

FtStrlen(s) == Len(s)

\* FtStrtrim that trims the end of s1 only
FtStrtrimEndOnly(s1, set) ==
    LET keep == {i \in 1..Len(s1) : s1[i] \notin set}
    IN  IF keep = {} THEN <<>> ELSE SubSeq(s1, 1, Max(keep))

\* ft_strtrim(s1, set): s1 without its leading and trailing characters of set
FtStrtrim(s1, set) ==
    LET keep == {i \in 1..Len(s1) : s1[i] \notin set}
    IN  IF keep = {} THEN <<>> ELSE SubSeq(s1, Min(keep), Max(keep))

\* ft_strncmp(s1, s2, n) == 0 for a literal s2 of length n
FtStrncmpEq(s1, s2, n) ==
    /\ Len(s1) >= n
    /\ SubSeq(s1, 1, n) = s2

\* ft_atoi on a field: optional sign, then the leading digits
RECURSIVE AtoiDigits(_, _)
AtoiDigits(s, acc) ==
    IF s = <<>> \/ ~FtIsdigit(Head(s)) THEN acc
    ELSE AtoiDigits(Tail(s), acc * 10 + DigitVal(Head(s)))

FtAtoi(str) ==
    IF str # <<>> /\ Head(str) = "+" THEN AtoiDigits(Tail(str), 0)
    ELSE IF str # <<>> /\ Head(str) = "-" THEN 0 - AtoiDigits(Tail(str), 0)
    ELSE AtoiDigits(str, 0)

\* ft_split.c count_words: the number of maximal runs of characters other than c
RECURSIVE CountWordsFrom(_, _, _)
CountWordsFrom(s, c, in_word) ==
    IF s = <<>> THEN 0
    ELSE IF Head(s) = c THEN CountWordsFrom(Tail(s), c, FALSE)
    ELSE (IF in_word THEN 0 ELSE 1) + CountWordsFrom(Tail(s), c, TRUE)

CountWords(s, c) == CountWordsFrom(s, c, FALSE)

\* ft_split.c extract_word: skip the separators, take the run that follows;
\* the result is <<word, rest of s>>
RECURSIVE SkipSep(_, _)
SkipSep(s, c) == IF s # <<>> /\ Head(s) = c THEN SkipSep(Tail(s), c) ELSE s

RECURSIVE WordLen(_, _)
WordLen(s, c) == IF s = <<>> \/ Head(s) = c THEN 0 ELSE 1 + WordLen(Tail(s), c)

ExtractWord(s, c) ==
    LET start == SkipSep(s, c)
        len == WordLen(start, c)
    IN  <<SubSeq(start, 1, len), SubSeq(start, len + 1, Len(start))>>

RECURSIVE SplitWords(_, _, _)
SplitWords(s, c, n) ==
    IF n = 0 THEN <<>>
    ELSE LET w == ExtractWord(s, c)
         IN  <<w[1]>> \o SplitWords(w[2], c, n - 1)

\* ft_split(s, c): the NULL-terminated tab as the sequence of its words
FtSplit(s, c) == SplitWords(s, c, CountWords(s, c))

----------------------------------------------------------------------------
(* The heap: the objects of the scene, of the line list, and the descriptor *)

\* fixed-point resolution: a double d is the integer d * FP, truncated
FP == 10 * 100

PathObj(field) ==
    CASE field = "north_texture_path" -> <<"path", 1>>
      [] field = "south_texture_path" -> <<"path", 2>>
      [] field = "west_texture_path" -> <<"path", 3>>
      [] field = "east_texture_path" -> <<"path", 4>>

MapDataObj == <<"map_data", 0>>
RowObj(i) == <<"row", i>>
NodeObj(i) == <<"node", i>>
FdObj == <<"fd", 0>>

\* malloc / open: the object becomes live
Alloc(heap, obj) == [heap EXCEPT !.live = @ \cup {obj}]

\* free / close: the object is released; releasing a dead object is recorded
Free(heap, obj) ==
    [live |-> heap.live \ {obj}, dbl |-> heap.dbl \/ obj \notin heap.live]

FreeAll(heap, objs) ==
    [live |-> heap.live \ objs, dbl |-> heap.dbl \/ ~(objs \subseteq heap.live)]

----------------------------------------------------------------------------
(* parser.c: t_config *)

InitConfig ==
    [north_texture_path |-> NULL, south_texture_path |-> NULL,
     west_texture_path |-> NULL, east_texture_path |-> NULL,
     floor_color_r |-> -1, floor_color_g |-> -1, floor_color_b |-> -1,
     ceiling_color_r |-> -1, ceiling_color_g |-> -1, ceiling_color_b |-> -1,
     map_data |-> NULL, map_height |-> 0, map_width |-> 0,
     player_start_x |-> 0 - FP, player_start_y |-> 0 - FP,
     player_orientation |-> "", player_found |-> 0,
     north_texture_set |-> 0, south_texture_set |-> 0,
     west_texture_set |-> 0, east_texture_set |-> 0,
     floor_color_set |-> 0, ceiling_color_set |-> 0]

\* FreePath with the "= NULL" forgotten
FreePathDangling(st, field) ==
    IF st.config[field] # NULL
    THEN [config |-> st.config, heap |-> Free(st.heap, PathObj(field))]
    ELSE st

\* one "if (config->X_texture_path) { free; = NULL; }" block; st = [config, heap]
FreePath(st, field) ==
    IF st.config[field] # NULL
    THEN [config |-> [st.config EXCEPT ![field] = NULL],
          heap |-> Free(st.heap, PathObj(field))]
    ELSE st

FreeMapData(st) ==
    IF st.config.map_data # NULL
    THEN [config |-> [st.config EXCEPT !.map_data = NULL],
          heap |-> Free(FreeAll(st.heap,
                                {RowObj(i) : i \in 1..st.config.map_height}),
                        MapDataObj)]
    ELSE st

\* free_config(config), on the pair [config, heap]
FreeConfig(st) ==
    FreeMapData(
        FreePath(FreePath(FreePath(FreePath(st, "north_texture_path"),
                                   "south_texture_path"),
                          "west_texture_path"),
                 "east_texture_path"))

TrimSetPath == {" ", "\t", "\n"}
TrimSetLine == {" ", "\t", "\n", "\f", "\r"}

\* ParseTexture without the test of the flag
ParseTextureNoFlagTest(line_content, path, flag_set) ==
    LET trimmed_path == FtStrtrim(line_content, TrimSetPath)
    IN  IF FtStrlen(trimmed_path) = 0
        THEN [ok |-> FALSE, path |-> path, set |-> flag_set]
        ELSE [ok |-> TRUE, path |-> trimmed_path, set |-> 1]

\* ParseTexture that stores the remainder as it came
ParseTextureUntrimmed(line_content, path, flag_set) ==
    LET trimmed_path == FtStrtrim(line_content, TrimSetPath)
    IN  IF flag_set # 0
        THEN [ok |-> FALSE, path |-> path, set |-> flag_set]
        ELSE IF FtStrlen(trimmed_path) = 0
        THEN [ok |-> FALSE, path |-> path, set |-> flag_set]
        ELSE [ok |-> TRUE, path |-> line_content, set |-> 1]

\* parse_texture(line_content, &path, &flag): [ok, path, set]
ParseTexture(line_content, path, flag_set) ==
    LET trimmed_path == FtStrtrim(line_content, TrimSetPath)
    IN  IF flag_set # 0
        THEN [ok |-> FALSE, path |-> path, set |-> flag_set]
        ELSE IF FtStrlen(trimmed_path) = 0
        THEN [ok |-> FALSE, path |-> path, set |-> flag_set]
        ELSE [ok |-> TRUE, path |-> trimmed_path, set |-> 1]

\* the numeric test of parse_color on one component
IsNumericField(f) ==
    \A j \in 1..Len(f) : FtIsdigit(f[j]) \/ (j = 1 /\ f[j] = "+")

\* InRange without the upper limit
InRangeNoUpper(v) == ~(v < 0)

InRange(v) == ~(v < 0 \/ v > 255)

\* parse_color(line_content, &r, &g, &b, type, &flag): [ok, r, g, b]
ParseColor(line_content, flag_set) ==
    LET trimmed_content == FtStrtrim(line_content, TrimSetPath)
        rgb_values == FtSplit(trimmed_content, ",")
        rejected == [ok |-> FALSE, r |-> -1, g |-> -1, b |-> -1]
    IN  IF flag_set # 0 THEN rejected
        ELSE IF FtStrlen(trimmed_content) = 0 THEN rejected
        ELSE IF Len(rgb_values) # 3 THEN rejected
        ELSE IF \E i \in 1..3 : ~IsNumericField(rgb_values[i]) THEN rejected
        ELSE LET temp_r == FtAtoi(rgb_values[1])
                 temp_g == FtAtoi(rgb_values[2])
                 temp_b == FtAtoi(rgb_values[3])
             IN  IF ~InRange(temp_r) \/ ~InRange(temp_g) \/ ~InRange(temp_b)
                 THEN rejected
                 ELSE [ok |-> TRUE, r |-> temp_r, g |-> temp_g, b |-> temp_b]

\* AllElementsParsed with the ceiling colour left out
AllElementsParsedNoCeiling(cfg) ==
    /\ cfg.north_texture_set # 0 /\ cfg.south_texture_set # 0
    /\ cfg.west_texture_set # 0 /\ cfg.east_texture_set # 0
    /\ cfg.floor_color_set # 0

\* all_elements_parsed(config)
AllElementsParsed(cfg) ==
    /\ cfg.north_texture_set # 0 /\ cfg.south_texture_set # 0
    /\ cfg.west_texture_set # 0 /\ cfg.east_texture_set # 0
    /\ cfg.floor_color_set # 0 /\ cfg.ceiling_color_set # 0

\* the texture branch of process_config_line for one identifier
TextureLine(st, rest, pfield, sfield) ==
    LET r == ParseTexture(rest, st.config[pfield], st.config[sfield])
    IN  IF r.ok
        THEN [ok |-> TRUE,
              config |-> [st.config EXCEPT ![pfield] = r.path, ![sfield] = r.set],
              heap |-> Alloc(st.heap, PathObj(pfield))]
        ELSE [ok |-> FALSE, config |-> st.config, heap |-> st.heap]

\* the colour branch of process_config_line for one identifier
ColorLine(st, rest, rf, gf, bf, sfield) ==
    LET c == ParseColor(rest, st.config[sfield])
    IN  IF c.ok
        THEN [ok |-> TRUE,
              config |-> [st.config EXCEPT ![rf] = c.r, ![gf] = c.g,
                                           ![bf] = c.b, ![sfield] = 1],
              heap |-> st.heap]
        ELSE [ok |-> FALSE, config |-> st.config, heap |-> st.heap]

Rest(s, n) == SubSeq(s, n + 1, Len(s))

\* process_config_line(trimmed_line, config): [ok, config, heap]
ProcessConfigLine(st, trimmed_line) ==
    IF FtStrncmpEq(trimmed_line, <<"N", "O", " ">>, 3)
    THEN TextureLine(st, Rest(trimmed_line, 3), "north_texture_path", "north_texture_set")
    ELSE IF FtStrncmpEq(trimmed_line, <<"S", "O", " ">>, 3)
    THEN TextureLine(st, Rest(trimmed_line, 3), "south_texture_path", "south_texture_set")
    ELSE IF FtStrncmpEq(trimmed_line, <<"W", "E", " ">>, 3)
    THEN TextureLine(st, Rest(trimmed_line, 3), "west_texture_path", "west_texture_set")
    ELSE IF FtStrncmpEq(trimmed_line, <<"E", "A", " ">>, 3)
    THEN TextureLine(st, Rest(trimmed_line, 3), "east_texture_path", "east_texture_set")
    ELSE IF FtStrncmpEq(trimmed_line, <<"F", " ">>, 2)
    THEN ColorLine(st, Rest(trimmed_line, 2), "floor_color_r", "floor_color_g",
                   "floor_color_b", "floor_color_set")
    ELSE IF FtStrncmpEq(trimmed_line, <<"C", " ">>, 2)
    THEN ColorLine(st, Rest(trimmed_line, 2), "ceiling_color_r", "ceiling_color_g",
                   "ceiling_color_b", "ceiling_color_set")
    ELSE [ok |-> FALSE, config |-> st.config, heap |-> st.heap]

\* AddMapLine that drops an empty line
AddMapLineSkipsEmpty(head, heap, line_content, alloc_ok) ==
    IF ~alloc_ok \/ line_content = <<>>
    THEN [lines |-> head, heap |-> heap]
    ELSE [lines |-> Append(head, line_content),
          heap |-> Alloc(heap, NodeObj(Len(head) + 1))]

\* AddMapLine that skips a line beginning with the letter W
AddMapLineSkipsW(head, heap, line_content, alloc_ok) ==
    IF ~alloc_ok \/ (line_content # <<>> /\ line_content[1] = "W")
    THEN [lines |-> head, heap |-> heap]
    ELSE [lines |-> Append(head, line_content),
          heap |-> Alloc(heap, NodeObj(Len(head) + 1))]

\* add_map_line(&head, line_content): [lines, heap]; a failed allocation
\* returns without appending
AddMapLine(head, heap, line_content, alloc_ok) ==
    IF ~alloc_ok THEN [lines |-> head, heap |-> heap]
    ELSE [lines |-> Append(head, line_content),
          heap |-> Alloc(heap, NodeObj(Len(head) + 1))]

\* free_map_lines(head)
FreeMapLines(head, heap) == FreeAll(heap, {NodeObj(i) : i \in 1..Len(head)})

\* PadRow that pads on the left
PadRowLeft(line, max_width) ==
    [j \in 1..max_width |->
        IF j <= max_width - Len(line) THEN " "
        ELSE line[j - (max_width - Len(line))]]

PadRow(line, max_width) ==
    [j \in 1..max_width |-> IF j <= Len(line) THEN line[j] ELSE " "]

\* convert_map_lines_to_array(head, config): [ok, config, heap];
\* fail names the allocation that fails: "none", "rows" or "row"
ConvertMapLinesToArray(head, st, fail) ==
    LET line_count == Len(head)
        max_width == IF head = <<>> THEN 0
                     ELSE Max({FtStrlen(head[i]) : i \in 1..Len(head)})
        sized == [st.config EXCEPT !.map_height = line_count,
                                   !.map_width = max_width]
    IN  IF fail # "none"
        THEN [ok |-> FALSE, config |-> [sized EXCEPT !.map_data = NULL],
              heap |-> st.heap]
        ELSE [ok |-> TRUE,
              config |-> [sized EXCEPT !.map_data =
                            [i \in 1..line_count |-> PadRow(head[i], max_width)]],
              heap |-> Alloc([st.heap EXCEPT !.live =
                                @ \cup {RowObj(i) : i \in 1..line_count}],
                             MapDataObj)]

----------------------------------------------------------------------------
(* parser.c: map validation; cell (y, x) of the C array is map_data[y+1][x+1] *)

Cell(cfg, y, x) == cfg.map_data[y + 1][x + 1]

IsMarker(c) == c = "N" \/ c = "S" \/ c = "E" \/ c = "W"

\* IsValidMapChar that lets any letter through
IsValidMapCharLax(c) ==
    c \notin {"\n", "\t", ","}

\* is_valid_map_char(c)
IsValidMapChar(c) ==
    c = "0" \/ c = "1" \/ c = " " \/ c = "N" \/ c = "S" \/ c = "E" \/ c = "W"

\* StorePlayerInfo with the row and the column exchanged
StorePlayerInfoSwapped(cfg, r, c, orientation) ==
    IF cfg.player_found # 0
    THEN [ok |-> FALSE, config |-> cfg]
    ELSE [ok |-> TRUE,
          config |-> [cfg EXCEPT !.player_start_x = r * FP + FP \div 2,
                                 !.player_start_y = c * FP + FP \div 2,
                                 !.player_orientation = orientation,
                                 !.player_found = 1,
                                 !.map_data[r + 1][c + 1] = "0"]]

\* StorePlayerInfo that leaves the marker in the grid
StorePlayerInfoKeepsMarker(cfg, r, c, orientation) ==
    IF cfg.player_found # 0
    THEN [ok |-> FALSE, config |-> cfg]
    ELSE [ok |-> TRUE,
          config |-> [cfg EXCEPT !.player_start_x = c * FP + FP \div 2,
                                 !.player_start_y = r * FP + FP \div 2,
                                 !.player_orientation = orientation,
                                 !.player_found = 1]]

\* StorePlayerInfo without the test of player_found
StorePlayerInfoAgain(cfg, r, c, orientation) ==
    [ok |-> TRUE,
     config |-> [cfg EXCEPT !.player_start_x = c * FP + FP \div 2,
                            !.player_start_y = r * FP + FP \div 2,
                            !.player_orientation = orientation,
                            !.player_found = 1,
                            !.map_data[r + 1][c + 1] = "0"]]

\* store_player_info(config, r, c, orientation): [ok, config]
StorePlayerInfo(cfg, r, c, orientation) ==
    IF cfg.player_found # 0
    THEN [ok |-> FALSE, config |-> cfg]
    ELSE [ok |-> TRUE,
          config |-> [cfg EXCEPT !.player_start_x = c * FP + FP \div 2,
                                 !.player_start_y = r * FP + FP \div 2,
                                 !.player_orientation = orientation,
                                 !.player_found = 1,
                                 !.map_data[r + 1][c + 1] = "0"]]

\* OpenAt without the test of the cell on the right
OpenAtNoRight(cfg, y, x) ==
    \/ y = 0 \/ Cell(cfg, y - 1, x) = " "
    \/ y = cfg.map_height - 1 \/ Cell(cfg, y + 1, x) = " "
    \/ x = 0 \/ Cell(cfg, y, x - 1) = " "
    \/ x = cfg.map_width - 1

\* OpenAt without the test of the cell on the left
OpenAtNoLeft(cfg, y, x) ==
    \/ y = 0 \/ Cell(cfg, y - 1, x) = " "
    \/ y = cfg.map_height - 1 \/ Cell(cfg, y + 1, x) = " "
    \/ x = 0
    \/ x = cfg.map_width - 1 \/ Cell(cfg, y, x + 1) = " "

\* is_map_closed(config): no '0' cell fails one of the four tests
OpenAt(cfg, y, x) ==
    \/ y = 0 \/ Cell(cfg, y - 1, x) = " "
    \/ y = cfg.map_height - 1 \/ Cell(cfg, y + 1, x) = " "
    \/ x = 0 \/ Cell(cfg, y, x - 1) = " "
    \/ x = cfg.map_width - 1 \/ Cell(cfg, y, x + 1) = " "

\* IsMapClosed that also wants a '0' cell beside every '0' cell
IsMapClosedNoLoneCell(cfg) ==
    \A y \in 0..(cfg.map_height - 1) : \A x \in 0..(cfg.map_width - 1) :
        Cell(cfg, y, x) = "0"
            => /\ ~OpenAt(cfg, y, x)
               /\ \/ Cell(cfg, y - 1, x) = "0" \/ Cell(cfg, y + 1, x) = "0"
                  \/ Cell(cfg, y, x - 1) = "0" \/ Cell(cfg, y, x + 1) = "0"

\* IsMapClosed that tests the border of the grid only, not the space cells
IsMapClosedBorderOnly(cfg) ==
    \A y \in 0..(cfg.map_height - 1) : \A x \in 0..(cfg.map_width - 1) :
        Cell(cfg, y, x) = "0"
            => ~(y = 0 \/ y = cfg.map_height - 1 \/ x = 0 \/ x = cfg.map_width - 1)

IsMapClosed(cfg) ==
    \A y \in 0..(cfg.map_height - 1) : \A x \in 0..(cfg.map_width - 1) :
        Cell(cfg, y, x) = "0" => ~OpenAt(cfg, y, x)

\* the scanning loops of validate_map from cell number k on, row by row
RECURSIVE ScanMap(_, _)
ScanMap(cfg, k) ==
    IF k >= cfg.map_height * cfg.map_width
    THEN [ok |-> TRUE, config |-> cfg]
    ELSE LET y == k \div cfg.map_width
             x == k % cfg.map_width
             c == Cell(cfg, y, x)
         IN  IF ~IsValidMapChar(c) THEN [ok |-> FALSE, config |-> cfg]
             ELSE IF IsMarker(c)
             THEN LET r == StorePlayerInfo(cfg, y, x, c)
                  IN  IF ~r.ok THEN r ELSE ScanMap(r.config, k + 1)
             ELSE ScanMap(cfg, k + 1)

\* ValidateMap without the reset of player_found before the scan
ValidateMapNoReset(cfg) ==
    IF cfg.map_height = 0 \/ cfg.map_width = 0
    THEN [ret |-> 0, config |-> cfg]
    ELSE LET s == ScanMap(cfg, 0)
         IN  IF ~s.ok THEN [ret |-> 0, config |-> s.config]
             ELSE IF s.config.player_found = 0 THEN [ret |-> 0, config |-> s.config]
             ELSE IF ~IsMapClosed(s.config) THEN [ret |-> 0, config |-> s.config]
             ELSE [ret |-> 1, config |-> s.config]

\* validate_map(config): [ret, config]
ValidateMap(cfg) ==
    IF cfg.map_height = 0 \/ cfg.map_width = 0
    THEN [ret |-> 0, config |-> cfg]
    ELSE LET s == ScanMap([cfg EXCEPT !.player_found = 0], 0)
         IN  IF ~s.ok THEN [ret |-> 0, config |-> s.config]
             ELSE IF s.config.player_found = 0 THEN [ret |-> 0, config |-> s.config]
             ELSE IF ~IsMapClosed(s.config) THEN [ret |-> 0, config |-> s.config]
             ELSE [ret |-> 1, config |-> s.config]

----------------------------------------------------------------------------
(* parser.c: parse_cub_file, one step per line read *)

\* an error return inside the reading loop:
\* close(fd); free_map_lines(map_lines_head); free_config(config); return (0)
FailReading(st, lines) ==
    FreeConfig([config |-> st.config,
                heap |-> FreeMapLines(lines, Free(st.heap, FdObj))])

\* the record LineStep yields for an error return
LineFailed(st, lines, phase) ==
    LET f == FailReading(st, lines)
    IN  [ret |-> 0, config |-> f.config, heap |-> f.heap,
         lines |-> lines, phase |-> phase, node |-> FALSE]

\* the record LineStep yields when the loop goes on; a holds [lines, heap];
\* node tells whether add_map_line was called
LineKept(cfg, a, phase, node) ==
    [ret |-> -1, config |-> cfg, heap |-> a.heap, lines |-> a.lines,
     phase |-> phase, node |-> node]

\* the test that a line read in header mode starts the map section
StartsMap(phase, trimmed_line) ==
    /\ phase = 0
    /\ (trimmed_line[1] = "1" \/ trimmed_line[1] = "0" \/ trimmed_line[1] = " ")

\* One iteration of the while loop on the line raw. The result holds ret = -1
\* when the loop goes on and ret = 0 when parse_cub_file returns 0.
\* fail: "none", "trim" (ft_strtrim returns NULL) or "node" (add_map_line
\* cannot allocate)
LineStep(cfg, heap, lines, phase, raw, fail) ==
    LET st == [config |-> cfg, heap |-> heap]
        trimmed_line == FtStrtrim(raw, TrimSetLine)
        phase2 == IF StartsMap(phase, trimmed_line) THEN 1 ELSE phase
    IN  IF fail = "trim" THEN LineFailed(st, lines, phase)
        ELSE IF FtStrlen(trimmed_line) = 0
        THEN IF phase # 0
             THEN LineKept(cfg, AddMapLine(lines, heap, <<>>, fail # "node"), phase,
                           TRUE)
             ELSE LineKept(cfg, [lines |-> lines, heap |-> heap], phase, FALSE)
        ELSE IF StartsMap(phase, trimmed_line) /\ ~AllElementsParsed(cfg)
        THEN LineFailed(st, lines, phase)
        ELSE IF phase2 # 0
        THEN IF \E i \in 1..Len(trimmed_line) : ~IsValidMapChar(trimmed_line[i])
             THEN LineFailed(st, lines, phase2)
             ELSE LineKept(cfg, AddMapLine(lines, heap, trimmed_line, fail # "node"),
                           phase2, TRUE)
        ELSE LET r == ProcessConfigLine(st, trimmed_line)
             IN  IF ~r.ok
                 THEN LineFailed([config |-> r.config, heap |-> r.heap], lines, phase)
                 ELSE LineKept(r.config, [lines |-> lines, heap |-> r.heap], phase,
                               FALSE)

\* AfterLoop without the tests of an empty line list (parser.c 614, 619, 637)
AfterLoopNoEmptyTests(cfg, heap, lines, phase, fail) ==
    LET closed == Free(heap, FdObj)
        giveup(s) == LET f == FreeConfig(s)
                     IN  [ret |-> 0, config |-> f.config, heap |-> f.heap,
                          grid |-> NULL]
        nolist == [config |-> cfg, heap |-> FreeMapLines(lines, closed)]
    IN  IF ~AllElementsParsed(cfg) THEN giveup(nolist)
        ELSE IF lines = <<>>
        THEN [ret |-> 1, config |-> cfg, heap |-> nolist.heap, grid |-> NULL]
        ELSE LET c == ConvertMapLinesToArray(lines, [config |-> cfg, heap |-> closed], fail)
                 freed == [config |-> c.config, heap |-> FreeMapLines(lines, c.heap)]
             IN  IF ~c.ok THEN giveup(freed)
                 ELSE LET v == ValidateMap(c.config)
                      IN  IF v.ret = 0
                          THEN giveup([config |-> v.config, heap |-> freed.heap])
                          ELSE [ret |-> 1, config |-> v.config, heap |-> freed.heap,
                                grid |-> c.config.map_data]

\* The code after the loop, reached when get_next_line returns NULL:
\* [ret, config, heap, grid], grid being the array as converted, before
\* validate_map rewrites the marker. fail: "none", "rows" or "row" (a malloc
\* of convert_map_lines_to_array fails)
AfterLoop(cfg, heap, lines, phase, fail) ==
    LET closed == Free(heap, FdObj)
        giveup(s) == LET f == FreeConfig(s)
                     IN  [ret |-> 0, config |-> f.config, heap |-> f.heap,
                          grid |-> NULL]
        nolist == [config |-> cfg, heap |-> FreeMapLines(lines, closed)]
    IN  IF ~AllElementsParsed(cfg) THEN giveup(nolist)
        ELSE IF lines = <<>> /\ phase # 0 THEN giveup(nolist)
        ELSE IF lines = <<>> /\ phase = 0 THEN giveup(nolist)
        ELSE LET c == ConvertMapLinesToArray(lines, [config |-> cfg, heap |-> closed], fail)
                 freed == [config |-> c.config, heap |-> FreeMapLines(lines, c.heap)]
             IN  IF ~c.ok THEN giveup(freed)
                 ELSE LET v == ValidateMap(c.config)
                      IN  IF c.config.map_data # NULL /\ v.ret = 0
                          THEN giveup([config |-> v.config, heap |-> freed.heap])
                          ELSE IF v.config.map_data = NULL /\ AllElementsParsed(v.config)
                          THEN giveup([config |-> v.config, heap |-> freed.heap])
                          ELSE [ret |-> 1, config |-> v.config, heap |-> freed.heap,
                                grid |-> c.config.map_data]

----------------------------------------------------------------------------
(* Fixed-point arithmetic standing for the doubles of the game *)

Abs(a) == IF a < 0 THEN 0 - a ELSE a

\* C division and the (int) cast round toward zero
TruncDiv(a, b) == IF a < 0 THEN 0 - ((0 - a) \div b) ELSE a \div b

\* (int)d for a fixed-point d
ToInt(d) == TruncDiv(d, FP)

\* floor(d) for a fixed-point d, as an integer
Floor(d) == d \div FP

\* a * b for two fixed-point values (b is split so that the product of a
\* fraction and 1e30 stays within the integers of the checker)
FMul(a, b) ==
    IF b >= FP * FP THEN a * (b \div FP) + TruncDiv(a * (b % FP), FP)
    ELSE TruncDiv(a * b, FP)

\* 1e30, and the 1e29 that cast_all_rays compares with
Huge == 1000 * 1000 * 1000
Miss == 100 * 1000 * 1000

MOVE_SPEED == 100
ROT_COS == 999
ROT_SIN == 50
PLANE_LEN == 660
CLAMP_MIN == 10

----------------------------------------------------------------------------
(* player_setup.c, player_movement.c; gm is t_game_data without its config *)

InitGame ==
    [player_x |-> 0, player_y |-> 0, dir_x |-> 0, dir_y |-> 0,
     plane_x |-> 0, plane_y |-> 0, mlx_ptr |-> 0, win_ptr |-> 0,
     screen_buffer |-> 0, north_texture |-> 0, south_texture |-> 0,
     east_texture |-> 0, west_texture |-> 0]

\* InitPlayerState with the plane of S equal to the plane of N
InitPlayerStateMirrored(gm, cfg) ==
    LET o == cfg.player_orientation
    IN  [gm EXCEPT
            !.player_x = cfg.player_start_x,
            !.player_y = cfg.player_start_y,
            !.dir_x = IF o = "E" THEN FP ELSE IF o = "W" THEN 0 - FP ELSE 0,
            !.dir_y = IF o = "N" THEN 0 - FP ELSE IF o = "S" THEN FP ELSE 0,
            !.plane_x = IF o = "N" \/ o = "S" THEN PLANE_LEN ELSE 0,
            !.plane_y = IF o = "E" THEN PLANE_LEN
                        ELSE IF o = "W" THEN 0 - PLANE_LEN ELSE 0]

\* init_player_state(game)
InitPlayerState(gm, cfg) ==
    LET o == cfg.player_orientation
    IN  [gm EXCEPT
            !.player_x = cfg.player_start_x,
            !.player_y = cfg.player_start_y,
            !.dir_x = IF o = "E" THEN FP ELSE IF o = "W" THEN 0 - FP ELSE 0,
            !.dir_y = IF o = "N" THEN 0 - FP ELSE IF o = "S" THEN FP ELSE 0,
            !.plane_x = IF o = "N" THEN PLANE_LEN
                        ELSE IF o = "S" THEN 0 - PLANE_LEN ELSE 0,
            !.plane_y = IF o = "E" THEN PLANE_LEN
                        ELSE IF o = "W" THEN 0 - PLANE_LEN ELSE 0]

\* is_wall(game, check_x, check_y)
IsWall(cfg, check_x, check_y) ==
    LET map_x == ToInt(check_x)
        map_y == ToInt(check_y)
    IN  IF map_x < 0 \/ map_x >= cfg.map_width \/ map_y < 0 \/ map_y >= cfg.map_height
        THEN TRUE
        ELSE Cell(cfg, map_y, map_x) = "1"

\* SlideMove that moves only when both axes are free
SlideMoveNoSlide(gm, cfg, vx, vy, mult) ==
    LET new_x == gm.player_x + FMul(vx, MOVE_SPEED) * mult
        new_y == gm.player_y + FMul(vy, MOVE_SPEED) * mult
        free == ~IsWall(cfg, new_x, gm.player_y) /\ ~IsWall(cfg, new_x, new_y)
    IN  [gm EXCEPT !.player_x = IF free THEN new_x ELSE gm.player_x,
                   !.player_y = IF free THEN new_y ELSE gm.player_y]

\* SlideMove with the Y displacement applied without its is_wall test
SlideMoveYUntested(gm, cfg, vx, vy, mult) ==
    LET new_x == gm.player_x + FMul(vx, MOVE_SPEED) * mult
        new_y == gm.player_y + FMul(vy, MOVE_SPEED) * mult
        px == IF ~IsWall(cfg, new_x, gm.player_y) THEN new_x ELSE gm.player_x
    IN  [gm EXCEPT !.player_x = px, !.player_y = new_y]

\* the body shared by move_forward_backward (v = dir) and strafe_left_right
\* (v = plane): X is tried with the old Y, then Y with the X just decided
SlideMove(gm, cfg, vx, vy, mult) ==
    LET new_x == gm.player_x + FMul(vx, MOVE_SPEED) * mult
        new_y == gm.player_y + FMul(vy, MOVE_SPEED) * mult
        px == IF ~IsWall(cfg, new_x, gm.player_y) THEN new_x ELSE gm.player_x
        py == IF ~IsWall(cfg, px, new_y) THEN new_y ELSE gm.player_y
    IN  [gm EXCEPT !.player_x = px, !.player_y = py]

\* move_forward_backward(game, move_dir)
MoveForwardBackward(gm, cfg, move_dir) ==
    SlideMove(gm, cfg, gm.dir_x, gm.dir_y, move_dir)

\* strafe_left_right(game, strafe_dir)
StrafeLeftRight(gm, cfg, strafe_dir) ==
    SlideMove(gm, cfg, gm.plane_x, gm.plane_y, strafe_dir)

\* rotate_player(game, rot_angle_multiplier): cos and sin of ROT_SPEED = 0.05
RotatePlayer(gm, m) ==
    [gm EXCEPT
        !.dir_x = TruncDiv(gm.dir_x * ROT_COS - gm.dir_y * ROT_SIN * m, FP),
        !.dir_y = TruncDiv(gm.dir_x * ROT_SIN * m + gm.dir_y * ROT_COS, FP),
        !.plane_x = TruncDiv(gm.plane_x * ROT_COS - gm.plane_y * ROT_SIN * m, FP),
        !.plane_y = TruncDiv(gm.plane_x * ROT_SIN * m + gm.plane_y * ROT_COS, FP)]

----------------------------------------------------------------------------
(* raycaster.c; a ray is t_ray_params, a column record is what one pass of *)
(* the loop of cast_all_rays did                                           *)

\* init_ray_directions(game, ray, x) and calculate_step_and_side_dist(game, ray);
\* perp_wall_dist is not written by either: it keeps the value carry
InitRay(gm, x, carry) ==
    LET camera_x == TruncDiv(2 * x * FP, ScreenW) - FP
        ray_dir_x == gm.dir_x + FMul(gm.plane_x, camera_x)
        ray_dir_y == gm.dir_y + FMul(gm.plane_y, camera_x)
        map_x == ToInt(gm.player_x)
        map_y == ToInt(gm.player_y)
        delta_dist_x == IF ray_dir_x = 0 THEN Huge ELSE TruncDiv(FP * FP, Abs(ray_dir_x))
        delta_dist_y == IF ray_dir_y = 0 THEN Huge ELSE TruncDiv(FP * FP, Abs(ray_dir_y))
    IN  [ray_dir_x |-> ray_dir_x, ray_dir_y |-> ray_dir_y,
         map_x |-> map_x, map_y |-> map_y,
         delta_dist_x |-> delta_dist_x, delta_dist_y |-> delta_dist_y,
         step_x |-> IF ray_dir_x < 0 THEN -1 ELSE 1,
         step_y |-> IF ray_dir_y < 0 THEN -1 ELSE 1,
         side_dist_x |-> IF ray_dir_x < 0
                         THEN FMul(gm.player_x - map_x * FP, delta_dist_x)
                         ELSE FMul((map_x + 1) * FP - gm.player_x, delta_dist_x),
         side_dist_y |-> IF ray_dir_y < 0
                         THEN FMul(gm.player_y - map_y * FP, delta_dist_y)
                         ELSE FMul((map_y + 1) * FP - gm.player_y, delta_dist_y),
         perp_wall_dist |-> carry, hit |-> 0, side |-> 0,
         oob |-> FALSE, iters |-> 0, cells |-> <<<<map_x, map_y>>>>]

\* DdaStep with an X step that advances map_y as well
DdaStepDiagonal(cfg, ray) ==
    LET moved == IF ray.side_dist_x < ray.side_dist_y
                 THEN [ray EXCEPT !.side_dist_x = @ + ray.delta_dist_x,
                                  !.map_x = @ + ray.step_x,
                                  !.map_y = @ + ray.step_y, !.side = 0]
                 ELSE [ray EXCEPT !.side_dist_y = @ + ray.delta_dist_y,
                                  !.map_y = @ + ray.step_y, !.side = 1]
        seen == [moved EXCEPT !.iters = @ + 1,
                              !.cells = Append(@, <<moved.map_x, moved.map_y>>)]
    IN  IF seen.map_x < 0 \/ seen.map_x >= cfg.map_width
           \/ seen.map_y < 0 \/ seen.map_y >= cfg.map_height
        THEN [seen EXCEPT !.hit = 1, !.perp_wall_dist = Huge, !.oob = TRUE]
        ELSE IF Cell(cfg, seen.map_y, seen.map_x) = "1"
        THEN [seen EXCEPT !.hit = 1]
        ELSE seen

\* one iteration of the while loop of perform_dda
DdaStep(cfg, ray) ==
    LET moved == IF ray.side_dist_x < ray.side_dist_y
                 THEN [ray EXCEPT !.side_dist_x = @ + ray.delta_dist_x,
                                  !.map_x = @ + ray.step_x, !.side = 0]
                 ELSE [ray EXCEPT !.side_dist_y = @ + ray.delta_dist_y,
                                  !.map_y = @ + ray.step_y, !.side = 1]
        seen == [moved EXCEPT !.iters = @ + 1,
                              !.cells = Append(@, <<moved.map_x, moved.map_y>>)]
    IN  IF seen.map_x < 0 \/ seen.map_x >= cfg.map_width
           \/ seen.map_y < 0 \/ seen.map_y >= cfg.map_height
        THEN [seen EXCEPT !.hit = 1, !.perp_wall_dist = Huge, !.oob = TRUE]
        ELSE IF Cell(cfg, seen.map_y, seen.map_x) = "1"
        THEN [seen EXCEPT !.hit = 1]
        ELSE seen

\* perform_dda(game, ray): the loop, cut off after DdaFuel iterations
RECURSIVE DdaLoop(_, _)
DdaLoop(cfg, ray) ==
    IF ray.hit # 0 \/ ray.iters >= DdaFuel THEN ray
    ELSE DdaLoop(cfg, DdaStep(cfg, ray))

PerformDda(cfg, ray) == DdaLoop(cfg, [ray EXCEPT !.hit = 0])

\* CalculateWallDistance without the clamp
CalculateWallDistanceNoClamp(ray) ==
    [ray EXCEPT !.perp_wall_dist = IF ray.side = 0
                                   THEN ray.side_dist_x - ray.delta_dist_x
                                   ELSE ray.side_dist_y - ray.delta_dist_y]

\* calculate_wall_distance(ray)
CalculateWallDistance(ray) ==
    LET d == IF ray.side = 0 THEN ray.side_dist_x - ray.delta_dist_x
             ELSE ray.side_dist_y - ray.delta_dist_y
    IN  [ray EXCEPT !.perp_wall_dist = IF d < CLAMP_MIN THEN CLAMP_MIN ELSE d]

\* the test of cast_all_rays that guards the drawing of a column
DrawTest(ray) == ray.hit # 0 /\ ray.perp_wall_dist < Miss

\* SelectTexture with the two textures of an X face exchanged
SelectTextureSwapped(ray) ==
    IF ray.side = 0
    THEN IF ray.ray_dir_x > 0 THEN "east_texture" ELSE "west_texture"
    ELSE IF ray.ray_dir_y > 0 THEN "north_texture" ELSE "south_texture"

\* select_texture(game, ray): the field of game whose address is returned
SelectTexture(ray) ==
    IF ray.side = 0
    THEN IF ray.ray_dir_x > 0 THEN "west_texture" ELSE "east_texture"
    ELSE IF ray.ray_dir_y > 0 THEN "north_texture" ELSE "south_texture"

\* calculate_wall_x(game, ray): the fraction of the coordinate of the hit
CalculateWallX(gm, ray) ==
    LET wall_x == IF ray.side = 0
                  THEN gm.player_y + FMul(ray.perp_wall_dist, ray.ray_dir_y)
                  ELSE gm.player_x + FMul(ray.perp_wall_dist, ray.ray_dir_x)
    IN  wall_x - Floor(wall_x) * FP

\* CalculateTextureX that mirrors without the - 1
CalculateTextureXOffByOne(ray, width, wall_x) ==
    LET tex_x == ToInt(wall_x * width)
    IN  IF (ray.side = 0 /\ ray.ray_dir_x > 0) \/ (ray.side = 1 /\ ray.ray_dir_y < 0)
        THEN width - tex_x
        ELSE tex_x

\* calculate_texture_x(ray, texture, wall_x), width being texture->width;
\* the two mirroring tests exclude each other
CalculateTextureX(ray, width, wall_x) ==
    LET tex_x == ToInt(wall_x * width)
    IN  IF ray.side = 0 /\ ray.ray_dir_x > 0 THEN width - tex_x - 1
        ELSE IF ray.side = 1 /\ ray.ray_dir_y < 0 THEN width - tex_x - 1
        ELSE tex_x

\* the value tex_in holds when calculate_texture_x is not the subject
NoTexture ==
    [game |-> [player_x |-> 0, player_y |-> 0],
     ray |-> [side |-> 0, perp_wall_dist |-> 0, ray_dir_x |-> 0, ray_dir_y |-> 0],
     width |-> 1]

\* one pass of the loop of cast_all_rays for column x; carry is the value
\* ray.perp_wall_dist holds when the pass begins; tex is the texture
\* draw_textured_stripe takes from select_texture, "" when it is not called
CastColumn(gm, cfg, x, carry) ==
    LET dda == PerformDda(cfg, InitRay(gm, x, carry))
        drawn == DrawTest(dda)
        ray == IF drawn THEN CalculateWallDistance(dda) ELSE dda
    IN  [x |-> x, ray |-> ray, drawn |-> drawn,
         tex |-> IF drawn THEN SelectTexture(ray) ELSE ""]

RECURSIVE CastFrom(_, _, _, _)
CastFrom(gm, cfg, x, carry) ==
    IF x >= ScreenW THEN <<>>
    ELSE LET col == CastColumn(gm, cfg, x, carry)
         IN  <<col>> \o CastFrom(gm, cfg, x + 1, col.ray.perp_wall_dist)

\* cast_all_rays(game): the columns of one frame, in order. junk is the
\* indeterminate value of the local ray.perp_wall_dist at entry
CastAllRays(gm, cfg, junk) == CastFrom(gm, cfg, 0, junk)

\* the values an uninitialised double is drawn from: below 1e29, or not
JunkValues == {0, Huge}

----------------------------------------------------------------------------
(* render.c, and the drawing of raycaster.c; an image is the pixels of the *)
(* screen buffer, pixel (x, y) being img[y + 1][x + 1]                      *)

\* rgb_to_int(r, g, b)
RgbToInt(r, g, b) == (r % 256) * 65536 + (g % 256) * 256 + (b % 256)

\* the colour read from a texture, whose pixels the scene file does not give
Texel == 0 - 1

\* my_mlx_pixel_put(img, x, y, color)
MyMlxPixelPut(img, x, y, color) ==
    IF x < 0 \/ x >= ScreenW \/ y < 0 \/ y >= ScreenH THEN img
    ELSE [img EXCEPT ![y + 1][x + 1] = color]

\* the nested loops of draw_floor_and_ceiling from pixel number k (row
\* k / screen_width, column k % screen_width) up to pixel number stop
RECURSIVE FillFrom(_, _, _, _)
FillFrom(img, k, stop, color) ==
    IF k >= stop THEN img
    ELSE FillFrom(MyMlxPixelPut(img, k % ScreenW, k \div ScreenW, color),
                  k + 1, stop, color)

\* draw_floor_and_ceiling(game)
DrawFloorAndCeiling(img, cfg) ==
    LET ceiling_color_int == RgbToInt(cfg.ceiling_color_r, cfg.ceiling_color_g,
                                      cfg.ceiling_color_b)
        floor_color_int == RgbToInt(cfg.floor_color_r, cfg.floor_color_g,
                                    cfg.floor_color_b)
        half == (ScreenH \div 2) * ScreenW
    IN  FillFrom(FillFrom(img, 0, half, ceiling_color_int),
                 half, ScreenH * ScreenW, floor_color_int)

\* the drawing loop of draw_textured_stripe from row y_coord to draw_e
RECURSIVE StripeFrom(_, _, _, _)
StripeFrom(img, x, y_coord, draw_e) ==
    IF y_coord > draw_e THEN img
    ELSE StripeFrom(MyMlxPixelPut(img, x, y_coord, Texel), x, y_coord + 1, draw_e)

\* draw_textured_stripe(g, r, x, s_h) for the column record col, when
\* cast_all_rays calls it; s_h / 0.0 is an infinite height
DrawTexturedStripe(img, gm, col) ==
    IF ~col.drawn \/ gm[col.tex] = 0 THEN img
    ELSE LET line_h == IF col.ray.perp_wall_dist = 0 THEN Huge
                       ELSE TruncDiv(ScreenH * FP, col.ray.perp_wall_dist)
             s == TruncDiv(0 - line_h, 2) + ScreenH \div 2
             e == line_h \div 2 + ScreenH \div 2
             draw_s == IF s < 0 THEN 0 ELSE s
             draw_e == IF e >= ScreenH THEN ScreenH - 1 ELSE e
         IN  StripeFrom(img, col.x, draw_s, draw_e)

\* the events of cast_all_rays: one per column, with the buffer as the
\* column left it
RECURSIVE ColumnEvents(_, _, _)
ColumnEvents(img, gm, cols) ==
    IF cols = <<>> THEN <<>>
    ELSE LET after == DrawTexturedStripe(img, gm, Head(cols))
         IN  <<[op |-> "column", x |-> Head(cols).x, image |-> after]>>
             \o ColumnEvents(after, gm, Tail(cols))

\* RenderTick that presents the buffer before it casts the rays
RenderTickPresentsFirst(gm, cfg, junk, stale) ==
    LET bg == DrawFloorAndCeiling(stale, cfg)
        cols == CastAllRays(gm, cfg, junk)
    IN  [frame |-> cols,
         events |-> <<[op |-> "draw_floor_and_ceiling", x |-> -1, image |-> bg],
                      [op |-> "mlx_put_image_to_window", x |-> -1, image |-> bg]>>
                    \o ColumnEvents(bg, gm, cols)]

\* the body of render_next_frame on the buffer stale: [frame, events];
\* events lists draw_floor_and_ceiling, the columns of cast_all_rays and
\* mlx_put_image_to_window in the order they ran, each with the buffer as it
\* left it
RenderTick(gm, cfg, junk, stale) ==
    LET bg == DrawFloorAndCeiling(stale, cfg)
        cols == CastAllRays(gm, cfg, junk)
        walls == ColumnEvents(bg, gm, cols)
        done == IF walls = <<>> THEN bg ELSE walls[Len(walls)].image
    IN  [frame |-> cols,
         events |-> <<[op |-> "draw_floor_and_ceiling", x |-> -1, image |-> bg]>>
                    \o walls
                    \o <<[op |-> "mlx_put_image_to_window", x |-> -1,
                          image |-> done]>>]

\* what a pixel of the buffer holds before the tick writes it: the value
\* mlx_new_image or an earlier tick left, told apart from every colour
StalePixel == 0 - 2

\* the buffer as render_next_frame finds it
StaleImages ==
    { [y \in 1..ScreenH |-> [x \in 1..ScreenW |-> StalePixel]] }

----------------------------------------------------------------------------
(* The scene files of the model: the lines get_next_line may return *)

HeaderLines ==
    { <<"N", "O", " ", "a">>, <<"N", "O", " ", " ", "b", " ", "c", "\t", "\n">>,
      <<"S", "O", " ", "a">>, <<"W", "E", " ", "a">>, <<"E", "A", " ", "a">>,
      <<"F", " ", "1", ",", "2", ",", "3">>,
      <<"C", " ", "4", ",", "5", ",", "6">>,
      <<"F", " ", "2", "5", "6", ",", "0", ",", "0">>,
      <<"N", "O", " ">>, <<"X", " ", "a">> }

BlankLines == { <<"\n">> }

GridLines ==
    { <<"1", "1", "1">>, <<" ", "1", "N", "1", "\n">>, <<"0">>,
      <<"1", "X", "1">>, <<"W", "E", " ", "1">> }

FileLines == HeaderLines \cup BlankLines \cup GridLines

----------------------------------------------------------------------------
(* main.c and tests/test_parser.c: the callers of parse_cub_file *)

Heap == [live |-> allocd, dbl |-> dblfree]

\* main: argc != 2 prints the usage and returns 1
MainUsage ==
    /\ caller = "main" /\ pc = "main" /\ argc # 2
    /\ usage_printed' = TRUE
    /\ pc' = "exited" /\ exit_status' = 1
    /\ UNCHANGED <<caller, argc, readerVars, config, parseVars, allocd, dblfree,
                   ran, gameVars, key_budget, grid0, unitVars>>

\* ParseOpen reached whatever the argument count
ParseOpenAnyArgc(open_ok) ==
    /\ pc = "main"
    /\ config' = InitConfig
    /\ map_lines' = <<>> /\ parsing_map_phase' = 0
    /\ last_line' = <<>> /\ dup_seen' = FALSE /\ at_eof' = FALSE
    /\ row_lost' = FALSE
    /\ IF open_ok
       THEN /\ allocd' = allocd \cup {FdObj}
            /\ pc' = "reading" /\ parse_ret' = -1
       ELSE /\ allocd' = allocd
            /\ pc' = "returned" /\ parse_ret' = 0
    /\ UNCHANGED <<caller, argc, usage_printed, readerVars, dblfree, ran, exit_status, gameVars,
                   key_budget, grid0, unitVars>>

\* parse_cub_file up to the first get_next_line: init_config, open; the
\* reader of the file is left to the caller
ParseOpenOn(open_ok) ==
    /\ pc = "main"
    /\ caller = "main" => argc = 2
    /\ config' = InitConfig
    /\ map_lines' = <<>> /\ parsing_map_phase' = 0
    /\ last_line' = <<>> /\ dup_seen' = FALSE /\ at_eof' = FALSE
    /\ row_lost' = FALSE
    /\ IF open_ok
       THEN /\ allocd' = allocd \cup {FdObj}
            /\ pc' = "reading" /\ parse_ret' = -1
       ELSE /\ allocd' = allocd
            /\ pc' = "returned" /\ parse_ret' = 0
    /\ UNCHANGED <<caller, argc, usage_printed, dblfree, ran, exit_status, gameVars,
                   key_budget, grid0, unitVars>>

ParseOpen(open_ok) == ParseOpenOn(open_ok) /\ UNCHANGED readerVars

\* the six identifiers of process_config_line with the flag each one sets
HeaderIds ==
    { [id |-> <<"N", "O", " ">>, flag |-> "north_texture_set"],
      [id |-> <<"S", "O", " ">>, flag |-> "south_texture_set"],
      [id |-> <<"W", "E", " ">>, flag |-> "west_texture_set"],
      [id |-> <<"E", "A", " ">>, flag |-> "east_texture_set"],
      [id |-> <<"F", " ">>, flag |-> "floor_color_set"],
      [id |-> <<"C", " ">>, flag |-> "ceiling_color_set"] }

\* trimmed_line is a header line whose identifier has been stored already
RepeatsIdentifier(cfg, trimmed_line) ==
    \E h \in HeaderIds :
        FtStrncmpEq(trimmed_line, h.id, Len(h.id)) /\ cfg[h.flag] # 0

\* one iteration of the reading loop of parse_cub_file on the line raw that
\* get_next_line returned, for scene files of at most cap grid rows
ParseLineUpTo(raw, fail, cap) ==
    /\ pc = "reading"
    /\ \E r \in {LineStep(config, Heap, map_lines, parsing_map_phase, raw, fail)} :
           /\ Len(r.lines) <= cap
           /\ fail = "node" => r.node
           /\ config' = r.config
           /\ allocd' = r.heap.live /\ dblfree' = r.heap.dbl
           /\ parsing_map_phase' = r.phase
           /\ map_lines' = IF r.ret = 0 THEN <<>> ELSE r.lines
           /\ parse_ret' = r.ret
           /\ pc' = IF r.ret = 0 THEN "returned" ELSE "reading"
    /\ last_line' = IF fail = "trim" THEN NULL ELSE FtStrtrim(raw, TrimSetLine)
    /\ at_eof' = FALSE
    /\ row_lost' = (row_lost \/ fail = "node")
    /\ dup_seen' = (dup_seen \/ (fail # "trim" /\
                                  RepeatsIdentifier(config, FtStrtrim(raw, TrimSetLine))))
    /\ UNCHANGED <<caller, argc, usage_printed, ran, exit_status, gameVars,
                   key_budget, grid0, unitVars>>

\* the same for scene files of at most MaxMapLines grid rows
ParseLineOn(raw, fail) == ParseLineUpTo(raw, fail, MaxMapLines)

ParseLine(raw, fail) == ParseLineOn(raw, fail) /\ UNCHANGED readerVars

\* get_next_line returns NULL: the rest of parse_cub_file
ParseEofOn(fail) ==
    /\ pc = "reading"
    /\ \E r \in {AfterLoop(config, Heap, map_lines, parsing_map_phase, fail)} :
           /\ config' = r.config
           /\ allocd' = r.heap.live /\ dblfree' = r.heap.dbl
           /\ parse_ret' = r.ret
           /\ grid0' = IF r.ret = 1 THEN r.grid ELSE grid0
    /\ map_lines' = <<>>
    /\ last_line' = NULL
    /\ pc' = "returned"
    /\ at_eof' = TRUE
    /\ UNCHANGED <<caller, argc, usage_printed, parsing_map_phase, dup_seen,
                   row_lost, ran, exit_status, gameVars, key_budget, unitVars>>

ParseEof(fail) == ParseEofOn(fail) /\ UNCHANGED readerVars

\* main: parse_cub_file returned 0
MainParseFailed ==
    /\ caller = "main" /\ pc = "returned" /\ parse_ret = 0
    /\ pc' = "exited" /\ exit_status' = 1
    /\ UNCHANGED <<caller, argc, usage_printed, readerVars, config, parseVars, allocd, dblfree, ran,
                   gameVars, key_budget, grid0, unitVars>>

\* tests: reset_and_free_config after the call, whatever it returned; then
\* the test program goes to next with the exit status status
TestResetThen(next, status) ==
    /\ caller = "test" /\ pc = "returned"
    /\ LET f == FreeConfig([config |-> config, heap |-> Heap])
       IN  /\ config' = InitConfig
           /\ allocd' = f.heap.live /\ dblfree' = f.heap.dbl
    /\ pc' = next /\ exit_status' = status
    /\ UNCHANGED <<caller, argc, usage_printed, readerVars, parseVars, ran,
                   gameVars, key_budget, grid0, unitVars>>

TestResetAndFree == TestResetThen("exited", 0)

----------------------------------------------------------------------------
(* mlx_setup.c, texture_loader.c: display and texture resources *)

MlxObj == <<"mlx", 0>>
WinObj == <<"win", 0>>
ScreenObj == <<"screen", 0>>
TexObj(k) == <<"tex", k>>

TexFields == <<"north_texture", "south_texture", "east_texture", "west_texture">>

\* init_mlx(game): [ok, game, heap]; stage names the call that fails, or "ok"
InitMlx(gm, heap, stage) ==
    IF stage = "mlx_init"
    THEN [ok |-> FALSE, game |-> [gm EXCEPT !.mlx_ptr = 0], heap |-> heap]
    ELSE IF stage = "window"
    THEN [ok |-> FALSE, game |-> [gm EXCEPT !.mlx_ptr = 1, !.win_ptr = 0],
          heap |-> Alloc(heap, MlxObj)]
    ELSE IF stage = "buffer"
    THEN [ok |-> FALSE,
          game |-> [gm EXCEPT !.mlx_ptr = 1, !.win_ptr = 0, !.screen_buffer = 0],
          heap |-> Alloc(heap, MlxObj)]
    ELSE [ok |-> TRUE,
          game |-> [gm EXCEPT !.mlx_ptr = 1, !.win_ptr = 1, !.screen_buffer = 1],
          heap |-> Alloc(Alloc(Alloc(heap, MlxObj), WinObj), ScreenObj)]

\* cleanup_mlx(game): [game, heap]
CleanupMlx(gm, heap) ==
    IF gm.mlx_ptr = 0 THEN [game |-> gm, heap |-> heap]
    ELSE LET h1 == IF gm.screen_buffer # 0 THEN Free(heap, ScreenObj) ELSE heap
             h2 == IF gm.win_ptr # 0 THEN Free(h1, WinObj) ELSE h1
         IN  [game |-> [gm EXCEPT !.screen_buffer = 0, !.win_ptr = 0], heap |-> h2]

\* load_all_textures(game) when the first n textures load and the next fails
\* (n = 4: all load): [ok, game, heap]
LoadAllTextures(gm, heap, n) ==
    [ok |-> n = 4,
     game |-> [gm EXCEPT !.north_texture = IF n >= 1 THEN 1 ELSE 0,
                         !.south_texture = IF n >= 2 THEN 1 ELSE 0,
                         !.east_texture = IF n >= 3 THEN 1 ELSE 0,
                         !.west_texture = IF n >= 4 THEN 1 ELSE 0],
     heap |-> [heap EXCEPT !.live = @ \cup {TexObj(k) : k \in 1..n}]]

\* free_all_textures(game): [game, heap]
FreeAllTextures(gm, heap) ==
    IF gm.mlx_ptr = 0 THEN [game |-> gm, heap |-> heap]
    ELSE [game |-> [gm EXCEPT !.north_texture = 0, !.south_texture = 0,
                              !.east_texture = 0, !.west_texture = 0],
          heap |-> FreeAll(heap, {TexObj(k) : k \in {k \in 1..4 : gm[TexFields[k]] # 0}})]

\* Teardown that releases the display before the textures and the scene
TeardownDisplayFirst(gm, cfg, heap) ==
    LET m == CleanupMlx(gm, heap)
        t == FreeAllTextures(m.game, m.heap)
        f == FreeConfig([config |-> cfg, heap |-> t.heap])
    IN  [game |-> t.game, config |-> f.config, heap |-> f.heap,
         calls |-> << <<"cleanup_mlx", heap.live \ m.heap.live>>,
                      <<"free_all_textures", m.heap.live \ t.heap.live>>,
                      <<"free_config", t.heap.live \ f.heap.live>> >>]

\* the teardown of handle_window_close and of the ESC branch of
\* handle_keypress: free_all_textures, free_config, cleanup_mlx; calls lists
\* the three calls in the order they were made, each with what it released
Teardown(gm, cfg, heap) ==
    LET t == FreeAllTextures(gm, heap)
        f == FreeConfig([config |-> cfg, heap |-> t.heap])
        m == CleanupMlx(t.game, f.heap)
    IN  [game |-> m.game, config |-> f.config, heap |-> m.heap,
         calls |-> << <<"free_all_textures", heap.live \ t.heap.live>>,
                      <<"free_config", t.heap.live \ f.heap.live>>,
                      <<"cleanup_mlx", f.heap.live \ m.heap.live>> >>]

Keys == {"ESC", "W", "S", "A", "D", "LEFT", "RIGHT", "OTHER"}

\* KeyEffect whose right arrow also steps forward
KeyEffectTurnSteps(gm, cfg, keycode) ==
    CASE keycode = "W" -> MoveForwardBackward(gm, cfg, 1)
      [] keycode = "S" -> MoveForwardBackward(gm, cfg, -1)
      [] keycode = "A" -> StrafeLeftRight(gm, cfg, -1)
      [] keycode = "D" -> StrafeLeftRight(gm, cfg, 1)
      [] keycode = "LEFT" -> RotatePlayer(gm, -1)
      [] keycode = "RIGHT" -> MoveForwardBackward(RotatePlayer(gm, 1), cfg, 1)
      [] OTHER -> gm

\* the part of handle_keypress after the ESC test, for one key event
KeyEffect(gm, cfg, keycode) ==
    CASE keycode = "W" -> MoveForwardBackward(gm, cfg, 1)
      [] keycode = "S" -> MoveForwardBackward(gm, cfg, -1)
      [] keycode = "A" -> StrafeLeftRight(gm, cfg, -1)
      [] keycode = "D" -> StrafeLeftRight(gm, cfg, 1)
      [] keycode = "LEFT" -> RotatePlayer(gm, -1)
      [] keycode = "RIGHT" -> RotatePlayer(gm, 1)
      [] OTHER -> gm

\* MainInitPlayer without the test of the value parse_cub_file returned
MainInitPlayerUnchecked ==
    /\ caller = "main" /\ pc = "returned"
    /\ game' = InitPlayerState(game, config)
    /\ ran' = ran \cup {"init_player_state"}
    /\ pc' = "init_mlx"
    /\ UNCHANGED <<caller, argc, usage_printed, readerVars, config, parseVars, allocd, dblfree,
                   exit_status, frame, nkeys, held, reps, teardown, tick, key_budget,
                   grid0,
                   unitVars>>

\* main: parse_cub_file returned 1; init_player_state
MainInitPlayer ==
    /\ caller = "main" /\ pc = "returned" /\ parse_ret = 1
    /\ game' = InitPlayerState(game, config)
    /\ ran' = ran \cup {"init_player_state"}
    /\ pc' = "init_mlx"
    /\ UNCHANGED <<caller, argc, usage_printed, readerVars, config, parseVars, allocd, dblfree,
                   exit_status, frame, nkeys, held, reps, teardown, tick, key_budget,
                   grid0,
                   unitVars>>

\* main: init_mlx, and handle_init_error when it fails
MainInitMlx(stage) ==
    /\ pc = "init_mlx"
    /\ LET r == InitMlx(game, Heap, stage)
           f == FreeConfig([config |-> config, heap |-> r.heap])
       IN  /\ game' = r.game
           /\ IF r.ok
              THEN /\ pc' = "load_textures"
                   /\ allocd' = r.heap.live /\ dblfree' = r.heap.dbl
                   /\ UNCHANGED <<config, exit_status>>
              ELSE /\ pc' = "exited" /\ exit_status' = 1
                   /\ config' = f.config
                   /\ allocd' = f.heap.live /\ dblfree' = f.heap.dbl
    /\ ran' = ran \cup {"init_mlx"}
    /\ UNCHANGED <<caller, argc, usage_printed, readerVars, parseVars, frame, nkeys, held, reps, teardown, tick,
                   key_budget, grid0, unitVars>>

\* main: load_all_textures, and the cleanup when it fails
MainLoadTextures(n) ==
    /\ pc = "load_textures"
    /\ LET r == LoadAllTextures(game, Heap, n)
           m == CleanupMlx(r.game, r.heap)
           f == FreeConfig([config |-> config, heap |-> m.heap])
       IN  IF r.ok
           THEN /\ pc' = "loop" /\ game' = r.game
                /\ allocd' = r.heap.live /\ dblfree' = r.heap.dbl
                /\ UNCHANGED <<config, exit_status>>
           ELSE /\ pc' = "exited" /\ exit_status' = 1
                /\ game' = m.game /\ config' = f.config
                /\ allocd' = f.heap.live /\ dblfree' = f.heap.dbl
    /\ ran' = ran \cup {"load_all_textures"}
    /\ UNCHANGED <<caller, argc, usage_printed, readerVars, parseVars, frame, nkeys, held, reps, teardown, tick,
                   key_budget, grid0, unitVars>>

\* handle_keypress(keycode, game) for one key event: a new press, or one
\* more event of the key that is held down
HandleKeypress(keycode) ==
    /\ pc = "loop"
    /\ IF keycode = held THEN reps < KeyRepeat ELSE nkeys < key_budget
    /\ nkeys' = IF keycode = held THEN nkeys ELSE nkeys + 1
    /\ reps' = IF keycode = held THEN reps + 1 ELSE 1
    /\ held' = keycode
    /\ frame' = <<>> /\ tick' = <<>>
    /\ ran' = ran \cup {"handle_keypress"}
    /\ IF keycode = "ESC"
       THEN LET t == Teardown(game, config, Heap)
            IN  /\ game' = t.game /\ config' = t.config
                /\ allocd' = t.heap.live /\ dblfree' = t.heap.dbl
                /\ teardown' = t.calls
                /\ pc' = "exited" /\ exit_status' = 0
       ELSE /\ game' = KeyEffect(game, config, keycode)
            /\ UNCHANGED <<config, allocd, dblfree, pc, exit_status, teardown>>
    /\ UNCHANGED <<caller, argc, usage_printed, readerVars, parseVars, key_budget, grid0, unitVars>>

\* handle_window_close(game)
HandleWindowClose ==
    /\ pc = "loop"
    /\ LET t == Teardown(game, config, Heap)
       IN  /\ game' = t.game /\ config' = t.config
           /\ allocd' = t.heap.live /\ dblfree' = t.heap.dbl
           /\ teardown' = t.calls
    /\ pc' = "exited" /\ exit_status' = 0
    /\ UNCHANGED <<caller, argc, usage_printed, readerVars, parseVars, ran, frame, nkeys, held, reps, tick,
                   key_budget, grid0, unitVars>>

\* render_next_frame(game); the screen buffer holds what mlx_new_image or
\* the tick before left in it
RenderNextFrame(junk) ==
    /\ pc = "loop"
    /\ \E stale \in StaleImages :
           \E r \in {RenderTick(game, config, junk, stale)} :
               /\ frame' = r.frame
               /\ tick' = r.events
    /\ ran' = ran \cup {"render_next_frame"}
    /\ UNCHANGED <<caller, argc, usage_printed, readerVars, pc, config, parseVars, allocd, dblfree,
                   exit_status, game, nkeys, held, reps, teardown, key_budget, grid0,
                   unitVars>>

----------------------------------------------------------------------------
(* The program cub3D: main on any scene file made of FileLines *)

EofFails == {"rows", "row"}
MlxStages == {"ok", "mlx_init", "window", "buffer"}

Init ==
    /\ caller = "main"
    /\ argc \in 1..3
    /\ pc = "main"
    /\ config = InitConfig
    /\ map_lines = <<>> /\ parsing_map_phase = 0
    /\ last_line = <<>> /\ dup_seen = FALSE /\ at_eof = FALSE
    /\ row_lost = FALSE
    /\ parse_ret = -1
    /\ allocd = {} /\ dblfree = FALSE
    /\ ran = {} /\ exit_status = -1
    /\ game = InitGame /\ frame = <<>> /\ nkeys = 0 /\ held = "" /\ reps = 0
    /\ teardown = <<>> /\ tick = <<>> /\ usage_printed = FALSE
    /\ key_budget = MaxSessionKeys
    /\ grid0 = NULL /\ vret = -1 /\ cret = -1
    /\ color_in = <<>> /\ color_out = [ok |-> FALSE]
    /\ tex_in = NoTexture /\ tex_out = -1
    /\ stash = NULL /\ fd_data = <<>> /\ offset = 0 /\ queue = <<>>

Next ==
    \/ MainUsage
    \/ \E open_ok \in BOOLEAN : ParseOpen(open_ok)
    \/ \E raw \in FileLines : ParseLine(raw, "none")
    \/ ParseEof("none")
    \/ MainParseFailed
    \/ MainInitPlayer
    \/ \E stage \in MlxStages : MainInitMlx(stage)
    \/ \E n \in 0..4 : MainLoadTextures(n)
    \/ \E keycode \in Keys : HandleKeypress(keycode)
    \/ HandleWindowClose
    \/ \E junk \in JunkValues : RenderNextFrame(junk)

Spec == Init /\ [][Next]_vars

----------------------------------------------------------------------------
(* tests/test_parser.c: parse_cub_file on any scene file made of FileLines,
   then reset_and_free_config; an allocation of the parser may fail *)

InitTest ==
    /\ caller = "test" /\ argc = 1
    /\ pc = "main"
    /\ config = InitConfig
    /\ map_lines = <<>> /\ parsing_map_phase = 0
    /\ last_line = <<>> /\ dup_seen = FALSE /\ at_eof = FALSE
    /\ row_lost = FALSE
    /\ parse_ret = -1
    /\ allocd = {} /\ dblfree = FALSE
    /\ ran = {} /\ exit_status = -1
    /\ game = InitGame /\ frame = <<>> /\ nkeys = 0 /\ held = "" /\ reps = 0
    /\ teardown = <<>> /\ tick = <<>> /\ usage_printed = FALSE
    /\ key_budget = 0
    /\ grid0 = NULL /\ vret = -1 /\ cret = -1
    /\ color_in = <<>> /\ color_out = [ok |-> FALSE]
    /\ tex_in = NoTexture /\ tex_out = -1
    /\ stash = NULL /\ fd_data = <<>> /\ offset = 0 /\ queue = <<>>

\* the node of add_map_line can fail only for a line that reaches
\* add_map_line, and the outcome of a failed ft_strtrim is the same for
\* every line
NoMem ==
    \/ \E raw \in GridLines \cup BlankLines : ParseLine(raw, "node")
    \/ ParseLine(<<"\n">>, "trim")
    \/ \E fail \in EofFails : ParseEof(fail)

NextTest ==
    \/ \E open_ok \in BOOLEAN : ParseOpen(open_ok)
    \/ \E raw \in FileLines : ParseLine(raw, "none")
    \/ ParseEof("none")
    \/ NoMem
    \/ TestResetAndFree

SpecTest == InitTest /\ [][NextTest]_vars

----------------------------------------------------------------------------
(* The render loop alone, from the state main enters mlx_loop in, for the
   scene files of SceneGrids read by the parser above *)

SceneHeader ==
    << <<"N", "O", " ", "a">>, <<"S", "O", " ", "a">>, <<"W", "E", " ", "a">>,
       <<"E", "A", " ", "a">>, <<"F", " ", "1", ",", "2", ",", "3">>,
       <<"C", " ", "4", ",", "5", ",", "6">> >>

\* a room of two cells by two
SceneGrids ==
    { << <<"1", "1", "1", "1">>, <<"1", "N", "0", "1">>,
         <<"1", "0", "0", "1">>, <<"1", "1", "1", "1">> >> }

\* parse_cub_file on the lines of file that are left: the loop, then the
\* code after it; st is the record LineStep yields
RECURSIVE ReadFile(_, _)
ReadFile(st, file) ==
    IF st.ret = 0 THEN [ret |-> 0, config |-> st.config, heap |-> st.heap,
                        grid |-> NULL]
    ELSE IF file = <<>>
    THEN AfterLoop(st.config, st.heap, st.lines, st.phase, "none")
    ELSE ReadFile(LineStep(st.config, st.heap, st.lines, st.phase, Head(file),
                           "none"),
                  Tail(file))

\* parse_cub_file(file, &config) from init_config on
ParseCubFile(file) ==
    ReadFile([ret |-> -1, config |-> InitConfig,
              heap |-> [live |-> {FdObj}, dbl |-> FALSE],
              lines |-> <<>>, phase |-> 0, node |-> FALSE],
             file)

\* main from the return of parse_cub_file to the call of mlx_loop, every
\* step succeeding; p is what parse_cub_file yielded
EnterLoop(p) ==
    LET m == InitMlx(InitPlayerState(InitGame, p.config), p.heap, "ok")
        t == LoadAllTextures(m.game, m.heap, 4)
    IN  [config |-> p.config, game |-> t.game, heap |-> t.heap, grid |-> p.grid]

InitLoop ==
    /\ caller = "main" /\ argc = 2 /\ pc = "loop"
    /\ \E g \in SceneGrids :
         \E p \in {ParseCubFile(SceneHeader \o g)} :
             /\ p.ret = 1
             /\ \E s \in {EnterLoop(p)} :
                    /\ config = s.config /\ game = s.game
                    /\ allocd = s.heap.live /\ dblfree = s.heap.dbl
                    /\ grid0 = s.grid
    /\ map_lines = <<>> /\ parsing_map_phase = 1
    /\ last_line = NULL /\ dup_seen = FALSE /\ at_eof = TRUE
    /\ row_lost = FALSE
    /\ parse_ret = 1
    /\ ran = {"init_player_state", "init_mlx", "load_all_textures"}
    /\ exit_status = -1
    /\ frame = <<>> /\ nkeys = 0 /\ held = "" /\ reps = 0
    /\ teardown = <<>> /\ tick = <<>> /\ usage_printed = FALSE
    /\ key_budget = MaxKeys
    /\ vret = -1 /\ cret = -1
    /\ color_in = <<>> /\ color_out = [ok |-> FALSE]
    /\ tex_in = NoTexture /\ tex_out = -1
    /\ stash = NULL /\ fd_data = <<>> /\ offset = 0 /\ queue = <<>>

\* the keys pressed in the loop: every key with an effect of its own kind;
\* a turn to the right and a key without effect are left to the other
\* specifications
LoopKeys == {"ESC", "W", "S", "A", "D", "LEFT"}

NextLoop ==
    \/ \E keycode \in LoopKeys : HandleKeypress(keycode)
    \/ HandleWindowClose
    \/ \E junk \in JunkValues : RenderNextFrame(junk)

SpecLoop == InitLoop /\ [][NextLoop]_vars

----------------------------------------------------------------------------
(* The render loop of an observer that only turns, in the room entered with
   each of the four orientations *)

ViewGrids ==
    { << <<"1", "1", "1", "1">>, <<"1", o, "0", "1">>,
         <<"1", "0", "0", "1">>, <<"1", "1", "1", "1">> >> :
      o \in {"N", "S", "E", "W"} }

InitView ==
    /\ caller = "main" /\ argc = 2 /\ pc = "loop"
    /\ \E g \in ViewGrids :
         \E p \in {ParseCubFile(SceneHeader \o g)} :
             /\ p.ret = 1
             /\ \E s \in {EnterLoop(p)} :
                    /\ config = s.config /\ game = s.game
                    /\ allocd = s.heap.live /\ dblfree = s.heap.dbl
                    /\ grid0 = s.grid
    /\ map_lines = <<>> /\ parsing_map_phase = 1
    /\ last_line = NULL /\ dup_seen = FALSE /\ at_eof = TRUE
    /\ row_lost = FALSE
    /\ parse_ret = 1
    /\ ran = {"init_player_state", "init_mlx", "load_all_textures"}
    /\ exit_status = -1
    /\ frame = <<>> /\ nkeys = 0 /\ held = "" /\ reps = 0
    /\ teardown = <<>> /\ tick = <<>> /\ usage_printed = FALSE
    /\ key_budget = MaxKeys
    /\ vret = -1 /\ cret = -1
    /\ color_in = <<>> /\ color_out = [ok |-> FALSE]
    /\ tex_in = NoTexture /\ tex_out = -1
    /\ stash = NULL /\ fd_data = <<>> /\ offset = 0 /\ queue = <<>>

NextView ==
    \/ \E keycode \in {"LEFT", "RIGHT"} : HandleKeypress(keycode)
    \/ \E junk \in JunkValues : RenderNextFrame(junk)

SpecView == InitView /\ [][NextView]_vars

----------------------------------------------------------------------------
(* Properties of the render loop *)

\* the observer stands inside the grid, on a cell that is not a Wall
OnOpenCell ==
    /\ game.player_x >= 0 /\ game.player_x < config.map_width * FP
    /\ game.player_y >= 0 /\ game.player_y < config.map_height * FP
    /\ config.map_data[(game.player_y \div FP) + 1][(game.player_x \div FP) + 1] # "1"

StoppedOnWall(col) ==
    /\ col.ray.hit # 0
    /\ col.ray.map_x >= 0 /\ col.ray.map_x < config.map_width
    /\ col.ray.map_y >= 0 /\ col.ray.map_y < config.map_height
    /\ config.map_data[col.ray.map_y + 1][col.ray.map_x + 1] = "1"

\* C5: in every frame, a column gets a wall stripe if and only if its own
\* DDA stopped on a Wall cell inside the grid.
C5_StripeIffWallHit ==
    \A i \in 1..Len(frame) : frame[i].drawn <=> StoppedOnWall(frame[i])

\* the DDA of column col took n steps, each of one cell along one axis, in
\* the direction the ray was given
SingleSteps(col) ==
    /\ Len(col.ray.cells) = col.ray.iters + 1
    /\ \A k \in 1..col.ray.iters :
           LET dx == col.ray.cells[k + 1][1] - col.ray.cells[k][1]
               dy == col.ray.cells[k + 1][2] - col.ray.cells[k][2]
           IN  \/ dx = col.ray.step_x /\ dy = 0
               \/ dx = 0 /\ dy = col.ray.step_y

\* C6: in every frame, perform_dda has stopped for each column after at most
\* map_width + map_height iterations, and each iteration moved exactly one of
\* map_x, map_y by one cell, by step_x or step_y, which are +1 or -1.
C6_DdaBounded ==
    \A i \in 1..Len(frame) :
        /\ frame[i].ray.hit # 0
        /\ frame[i].ray.iters <= config.map_width + config.map_height
        /\ frame[i].ray.step_x \in {-1, 1} /\ frame[i].ray.step_y \in {-1, 1}
        /\ SingleSteps(frame[i])

\* C6 witness: a frame with a ray that crossed two cells of the room, one
\* along each axis, before it stopped
C6_Witness ==
    /\ pc = "loop" /\ Len(frame) = ScreenW
    /\ \E i \in 1..Len(frame) :
           /\ frame[i].ray.iters >= 3
           /\ frame[i].ray.cells[1][1] # frame[i].ray.cells[frame[i].ray.iters][1]
           /\ frame[i].ray.cells[1][2] # frame[i].ray.cells[frame[i].ray.iters][2]

----------------------------------------------------------------------------
(* validate_map alone, and init_player_state after it, on every small grid
   convert_map_lines_to_array can produce: rectangular, made of the
   characters parse_cub_file lets through *)

\* the grids have at most MaxOpen cells that are not Wall, and the sizes
\* that leave room for that many cells side by side inside the border
MaxOpen == 2
MapH == MaxOpen + 1
MapW == MaxOpen + 2

OpenChars == {"0", " ", "N", "S", "E", "W"}

\* the grid of h rows and w columns that is Wall except on the cells of P,
\* where it holds f
GridOf(h, w, P, f) ==
    [i \in 1..h |-> [j \in 1..w |-> IF <<i, j>> \in P THEN f[<<i, j>>] ELSE "1"]]

InitMap ==
    /\ caller = "test" /\ argc = 1 /\ pc = "validate_map"
    /\ \E h \in 1..MapH, w \in 1..MapW :
         \E P \in SUBSET ((1..h) \X (1..w)) :
             /\ Cardinality(P) <= MaxOpen
             /\ \E f \in [P -> OpenChars] :
                    /\ grid0 = GridOf(h, w, P, f)
                    /\ config = [InitConfig EXCEPT !.map_data = GridOf(h, w, P, f),
                                                   !.map_height = h,
                                                   !.map_width = w]
    /\ map_lines = <<>> /\ parsing_map_phase = 1
    /\ last_line = <<>> /\ dup_seen = FALSE /\ at_eof = FALSE
    /\ row_lost = FALSE
    /\ parse_ret = -1
    /\ allocd = {} /\ dblfree = FALSE
    /\ ran = {} /\ exit_status = -1
    /\ game = InitGame /\ frame = <<>>
    /\ nkeys = 0 /\ held = "" /\ reps = 0
    /\ teardown = <<>> /\ tick = <<>> /\ usage_printed = FALSE /\ key_budget = 0
    /\ vret = -1 /\ cret = -1
    /\ color_in = <<>> /\ color_out = [ok |-> FALSE]
    /\ tex_in = NoTexture /\ tex_out = -1
    /\ stash = NULL /\ fd_data = <<>> /\ offset = 0 /\ queue = <<>>

\* the call validate_map(config)
ValidateMapCall ==
    /\ pc = "validate_map"
    /\ \E v \in {ValidateMap(config)} :
           /\ vret' = v.ret
           /\ config' = v.config
    /\ pc' = "validated"
    /\ UNCHANGED <<caller, argc, usage_printed, readerVars, parseVars, allocd, dblfree, ran, exit_status,
                   gameVars, key_budget, grid0, cret, color_in, color_out,
                   tex_in, tex_out>>

\* main's call init_player_state(&game) on the validated scene
InitPlayerCall ==
    /\ pc = "validated" /\ vret = 1
    /\ game' = InitPlayerState(game, config)
    /\ pc' = "player_set"
    /\ UNCHANGED <<caller, argc, usage_printed, readerVars, config, parseVars, allocd, dblfree, ran,
                   exit_status, frame, nkeys, held, reps, teardown, tick, key_budget,
                   grid0,
                   unitVars>>

NextMap == ValidateMapCall \/ InitPlayerCall

SpecMap == InitMap /\ [][NextMap]_vars

----------------------------------------------------------------------------
(* Properties of validate_map *)

\* the cells of the grid of the scene, in C coordinates
GridCells == (0..(config.map_height - 1)) \X (0..(config.map_width - 1))

\* cell (y, x) lies inside the grid and is not a space cell
SolidAt(y, x) ==
    /\ y >= 0 /\ y < config.map_height
    /\ x >= 0 /\ x < config.map_width
    /\ config.map_data[y + 1][x + 1] # " "

\* cell c lies on the first or last row or column
OnBorder(c) ==
    \/ c[1] = 0 \/ c[1] = config.map_height - 1
    \/ c[2] = 0 \/ c[2] = config.map_width - 1

\* C1: after validate_map returned 1, each '0' cell of the grid, the
\* converted marker cell included, has its four orthogonal neighbours inside
\* the grid and none of them is a space; and a grid that came with a '0' on
\* its first or last row or column is never validated.
C1_FloorEnclosed ==
    /\ vret = 1 =>
           \A c \in GridCells :
               config.map_data[c[1] + 1][c[2] + 1] = "0" =>
                   /\ SolidAt(c[1] - 1, c[2]) /\ SolidAt(c[1] + 1, c[2])
                   /\ SolidAt(c[1], c[2] - 1) /\ SolidAt(c[1], c[2] + 1)
    /\ (pc = "validated" /\
           \E c \in GridCells : OnBorder(c) /\ grid0[c[1] + 1][c[2] + 1] = "0")
          => vret = 0

\* C1 witness: a validated grid that came with a '0' cell beside its marker
C1_Witness ==
    /\ pc = "validated" /\ vret = 1
    /\ \E c \in GridCells : grid0[c[1] + 1][c[2] + 1] = "0"

\* the marker cells of the grid as it was before validate_map ran
Markers0 ==
    {c \in GridCells : grid0[c[1] + 1][c[2] + 1] \in {"N", "S", "E", "W"}}

\* C2: validate_map returns 0 on a grid with no marker and on a grid with
\* two markers or more; it returns 1 only on a grid with exactly one.
C2_ExactlyOneMarker ==
    pc = "validated" =>
        /\ Cardinality(Markers0) = 0 => vret = 0
        /\ Cardinality(Markers0) >= 2 => vret = 0
        /\ vret = 1 => Cardinality(Markers0) = 1

\* C2 witness: a grid with two markers, enclosed, and rejected
C2_Witness ==
    /\ pc = "validated" /\ vret = 0
    /\ Cardinality(Markers0) = 2
    /\ \A c \in Markers0 : ~OnBorder(c)

----------------------------------------------------------------------------
(* parse_color alone, on every short remainder of a colour line *)

MaxColorLen == 7

ColorChars == {"2", "5", ",", "+", " "}

\* the strings over ColorChars of length n
ColorStrings(n) == [1..n -> ColorChars]

InitColor ==
    /\ caller = "test" /\ argc = 1 /\ pc = "parse_color"
    /\ \E n \in 0..MaxColorLen : color_in \in ColorStrings(n)
    /\ color_out = [ok |-> FALSE]
    /\ config = InitConfig
    /\ map_lines = <<>> /\ parsing_map_phase = 0
    /\ last_line = <<>> /\ dup_seen = FALSE /\ at_eof = FALSE
    /\ row_lost = FALSE
    /\ parse_ret = -1
    /\ allocd = {} /\ dblfree = FALSE
    /\ ran = {} /\ exit_status = -1
    /\ game = InitGame /\ frame = <<>>
    /\ nkeys = 0 /\ held = "" /\ reps = 0
    /\ teardown = <<>> /\ tick = <<>> /\ usage_printed = FALSE /\ key_budget = 0
    /\ grid0 = NULL /\ vret = -1 /\ cret = -1
    /\ tex_in = NoTexture /\ tex_out = -1
    /\ stash = NULL /\ fd_data = <<>> /\ offset = 0 /\ queue = <<>>

\* the call parse_color(color_in, &r, &g, &b, type, &flag) with the flag clear
ParseColorCall ==
    /\ pc = "parse_color"
    /\ color_out' = ParseColor(color_in, 0)
    /\ pc' = "parsed_color"
    /\ UNCHANGED <<caller, argc, usage_printed, readerVars, config, parseVars, allocd, dblfree, ran,
                   exit_status, gameVars, key_budget, grid0, vret, cret,
                   color_in, tex_in, tex_out>>

NextColor == ParseColorCall

SpecColor == InitColor /\ [][NextColor]_vars

----------------------------------------------------------------------------
(* Properties of parse_color *)

\* s cut at every comma, the empty pieces kept
RECURSIVE CommaFields(_, _)
CommaFields(s, cur) ==
    IF s = <<>> THEN <<cur>>
    ELSE IF Head(s) = "," THEN <<cur>> \o CommaFields(Tail(s), <<>>)
    ELSE CommaFields(Tail(s), Append(cur, Head(s)))

\* f is digits after an optional single '+', with one digit at least
NumericField(f) ==
    LET d == IF f # <<>> /\ Head(f) = "+" THEN Tail(f) ELSE f
    IN  /\ d # <<>>
        /\ \A i \in 1..Len(d) : d[i] \in {"0", "1", "2", "3", "4", "5", "6", "7", "8", "9"}
        /\ AtoiDigits(d, 0) <= 255

\* the remainder, trimmed, is three comma-separated numeric fields in [0,255]
WellFormedColor(s) ==
    LET f == CommaFields(FtStrtrim(s, TrimSetPath), <<>>)
    IN  Len(f) = 3 /\ \A i \in 1..3 : NumericField(f[i])

\* C9: parse_color accepts the remainder if and only if, trimmed and cut at
\* its commas, it is exactly three non-empty numeric fields (digits after an
\* optional single '+'), each in [0,255].
C9_AcceptsIffThreeFields ==
    pc = "parsed_color" => (color_out.ok <=> WellFormedColor(color_in))

----------------------------------------------------------------------------
(* convert_map_lines_to_array alone, on every short list of lines the reading
   loop can collect: trimmed lines of grid characters, empty ones included *)

MaxRows == 2
MaxRowLen == 3

RowChars == {"1", "N", " "}

\* the trimmed lines of at most n characters
RowStrings(n) ==
    UNION { {r \in [1..k -> RowChars] : k > 0 => (r[1] # " " /\ r[k] # " ")} :
            k \in 0..n }

ConvertFails == {"none", "rows", "row"}

InitConvert ==
    /\ caller = "test" /\ argc = 1 /\ pc = "convert"
    /\ \E n \in 1..MaxRows : map_lines \in [1..n -> RowStrings(MaxRowLen)]
    /\ allocd = {NodeObj(i) : i \in 1..Len(map_lines)}
    /\ config = InitConfig
    /\ parsing_map_phase = 1
    /\ last_line = <<>> /\ dup_seen = FALSE /\ at_eof = TRUE
    /\ row_lost = FALSE
    /\ parse_ret = -1
    /\ dblfree = FALSE
    /\ ran = {} /\ exit_status = -1
    /\ game = InitGame /\ frame = <<>>
    /\ nkeys = 0 /\ held = "" /\ reps = 0
    /\ teardown = <<>> /\ tick = <<>> /\ usage_printed = FALSE /\ key_budget = 0
    /\ grid0 = NULL /\ vret = -1 /\ cret = -1
    /\ color_in = <<>> /\ color_out = [ok |-> FALSE]
    /\ tex_in = NoTexture /\ tex_out = -1
    /\ stash = NULL /\ fd_data = <<>> /\ offset = 0 /\ queue = <<>>

\* the call convert_map_lines_to_array(map_lines_head, config)
ConvertCall(fail) ==
    /\ pc = "convert"
    /\ \E c \in {ConvertMapLinesToArray(map_lines,
                                         [config |-> config, heap |-> Heap],
                                         fail)} :
           /\ cret' = IF c.ok THEN 1 ELSE 0
           /\ config' = c.config
           /\ allocd' = c.heap.live /\ dblfree' = c.heap.dbl
    /\ pc' = "converted"
    /\ UNCHANGED <<caller, argc, usage_printed, readerVars, parseVars, ran, exit_status, gameVars,
                   key_budget, grid0, vret, color_in, color_out, tex_in,
                   tex_out>>

NextConvert == \E fail \in ConvertFails : ConvertCall(fail)

SpecConvert == InitConvert /\ [][NextConvert]_vars

\* C15: after convert_map_lines_to_array returned 1, map_height is the
\* number of collected lines, map_width the greatest of their lengths, every
\* row of map_data has map_width cells, row i holds the characters of line i
\* at their indices and spaces after them.
C15_RowsPadded ==
    cret = 1 =>
        /\ config.map_height = Len(map_lines)
        /\ Len(config.map_data) = Len(map_lines)
        /\ \A i \in 1..Len(map_lines) : Len(map_lines[i]) <= config.map_width
        /\ \E i \in 1..Len(map_lines) : Len(map_lines[i]) = config.map_width
        /\ \A i \in 1..Len(map_lines) :
               /\ Len(config.map_data[i]) = config.map_width
               /\ \A j \in 1..config.map_width :
                      config.map_data[i][j] =
                          IF j <= Len(map_lines[i]) THEN map_lines[i][j] ELSE " "

\* C15 witness: an empty line and a line of three characters with a space
\* inside, converted to two rows of three cells
C15_Witness ==
    /\ pc = "converted" /\ cret = 1
    /\ Len(map_lines) = 2 /\ Len(map_lines[1]) = 0
    /\ Len(map_lines[2]) = 3 /\ map_lines[2][2] = " "
    /\ config.map_width = 3

----------------------------------------------------------------------------
(* Properties of parse_cub_file and of its callers *)

\* the six header fields NO, SO, WE, EA, F, C are set
SixFieldsSet ==
    /\ config.north_texture_set # 0 /\ config.south_texture_set # 0
    /\ config.west_texture_set # 0 /\ config.east_texture_set # 0
    /\ config.floor_color_set # 0 /\ config.ceiling_color_set # 0

\* the step reads, in header mode, a non-blank line beginning with '1' or '0'
ReadsGridStart ==
    /\ pc = "reading" /\ parsing_map_phase = 0
    /\ last_line' # <<>>
    /\ last_line'[1] \in {"1", "0"}

\* C3: a non-blank line beginning with '1' or '0' read in header mode
\* switches the parser to grid mode if and only if the six header fields are
\* set; when one is unset the parse returns 0 at that line, still in header
\* mode. No step leaves header mode with a field unset.
C3_GridStartNeedsSixFields ==
    [][ /\ ReadsGridStart =>
             IF SixFieldsSet
             THEN parsing_map_phase' = 1
             ELSE parsing_map_phase' = 0 /\ parse_ret' = 0 /\ pc' = "returned"
        /\ (parsing_map_phase = 0 /\ parsing_map_phase' = 1) => SixFieldsSet ]_vars

\* C3 witness: the line "111" has just switched the parser to grid mode
C3_Witness ==
    /\ pc = "reading" /\ parsing_map_phase = 1
    /\ last_line = <<"1", "1", "1">> /\ Len(map_lines) = 1

\* C7: whenever parse_cub_file has returned 0, the four texture paths and
\* map_data are NULL, nothing the parse allocated is still live (paths, rows,
\* line nodes, the descriptor), and nothing has been freed twice, also after
\* the free_config the tests run next.
C7_FailureReleasesAll ==
    (parse_ret = 0 /\ pc \in {"returned", "exited"}) =>
        /\ config.north_texture_path = NULL /\ config.south_texture_path = NULL
        /\ config.west_texture_path = NULL /\ config.east_texture_path = NULL
        /\ config.map_data = NULL
        /\ allocd = {}
        /\ ~dblfree

\* C7 witness: a parse that failed in grid mode, with the paths and line
\* nodes it had allocated, followed by the free_config of the tests
C7_Witness ==
    /\ caller = "test" /\ pc = "exited" /\ parse_ret = 0
    /\ parsing_map_phase = 1 /\ last_line # NULL

\* C8: init_player_state, init_mlx, load_all_textures and the callbacks have
\* run only if parse_cub_file returned 1; after a return of 0 main does
\* nothing but exit, with a non-zero status and the observer untouched.
C8_InitOnlyAfterParse ==
    /\ ran # {} => parse_ret = 1
    /\ (caller = "main" /\ parse_ret = 0) =>
           /\ pc \in {"returned", "exited"}
           /\ game = InitGame /\ frame = <<>>
           /\ pc = "exited" => exit_status # 0 /\ exit_status # -1

\* C8 witness: parse_cub_file returned 1, the three initialisations ran and
\* the render callback has drawn a frame
C8_Witness ==
    /\ caller = "main" /\ pc = "loop" /\ parse_ret = 1
    /\ "init_player_state" \in ran /\ "load_all_textures" \in ran
    /\ frame # <<>>

\* a parse step keeps every stored header value (free_config may release a
\* path when the parse fails)
KeepsStoredValues ==
    pc = "reading" =>
        /\ \A f \in {"north", "south", "west", "east"} :
               config[f \o "_texture_set"] # 0 =>
                   /\ config'[f \o "_texture_set"] # 0
                   /\ config'[f \o "_texture_path"] \in
                          {config[f \o "_texture_path"], NULL}
        /\ \A f \in {"floor", "ceiling"} :
               config[f \o "_color_set"] # 0 =>
                   /\ config'[f \o "_color_set"] # 0
                   /\ config'[f \o "_color_r"] = config[f \o "_color_r"]
                   /\ config'[f \o "_color_g"] = config[f \o "_color_g"]
                   /\ config'[f \o "_color_b"] = config[f \o "_color_b"]

\* C10: once a line repeating an identifier that is already stored has been
\* read, in header mode or among the grid rows, parse_cub_file returns 0; and
\* no parse step changes a stored path or colour.
C10_DuplicateIdentifier ==
    /\ [](dup_seen /\ pc # "reading" => parse_ret = 0)
    /\ [][KeepsStoredValues]_vars

\* C10 witness: a second WE line was read as a grid row and the parse went
\* on to the end of the file before it returned 0
C10_Witness ==
    /\ dup_seen /\ pc = "returned" /\ parse_ret = 0
    /\ parsing_map_phase = 1 /\ last_line = NULL

\* the six stored colour components
ColourComponents ==
    {config.floor_color_r, config.floor_color_g, config.floor_color_b,
     config.ceiling_color_r, config.ceiling_color_g, config.ceiling_color_b}

\* the step reads, in header mode, a line "F ..." or "C ..." whose
\* remainder, cut at its commas, has a field that is a number above 255
ReadsColourAbove255 ==
    /\ pc = "reading" /\ parsing_map_phase = 0 /\ ~at_eof'
    /\ Len(last_line') >= 2
    /\ SubSeq(last_line', 1, 2) \in {<<"F", " ">>, <<"C", " ">>}
    /\ \E f \in {FtStrtrim(SubSeq(last_line', 3, Len(last_line')), TrimSetPath)} :
           \E i \in 1..Len(CommaFields(f, <<>>)) :
               LET t == CommaFields(f, <<>>)[i]
               IN  /\ t # <<>>
                   /\ \A j \in 1..Len(t) : \E k \in 1..10 : Digits[k] = t[j]
                   /\ AtoiDigits(t, 0) > 255

\* C23: whenever parse_cub_file has returned 1 the six colour components
\* are integers in [0,255] (and a component that is set is in [0,255] at any
\* point of the parse); a colour line with a component above 255 makes
\* parse_cub_file return 0 in the step that reads it, nothing being stored.
C23_ColourInRange ==
    /\ [](parse_ret = 1 => \A v \in ColourComponents : v \in 0..255)
    /\ [](pc = "reading" =>
              /\ config.floor_color_set # 0 =>
                     \A v \in {config.floor_color_r, config.floor_color_g,
                               config.floor_color_b} : v \in 0..255
              /\ config.ceiling_color_set # 0 =>
                     \A v \in {config.ceiling_color_r, config.ceiling_color_g,
                               config.ceiling_color_b} : v \in 0..255)
    /\ [][ReadsColourAbove255 =>
              /\ parse_ret' = 0 /\ pc' = "returned"
              /\ config'.floor_color_set = config.floor_color_set
              /\ config'.floor_color_r = config.floor_color_r]_vars

\* C23 witness: the line "F 256,0,0" was read as the first floor colour of
\* the file, after the four textures, and the parse returned 0 on it
C23_Witness ==
    /\ pc = "returned" /\ parse_ret = 0 /\ ~at_eof /\ ~dup_seen
    /\ last_line = <<"F", " ", "2", "5", "6", ",", "0", ",", "0">>
    /\ config.floor_color_set = 0 /\ config.east_texture_set # 0
    /\ config.north_texture_set # 0

\* the four texture identifiers with the fields each one fills
TextureIds ==
    { [id |-> <<"N", "O">>, path |-> "north_texture_path", flag |-> "north_texture_set"],
      [id |-> <<"S", "O">>, path |-> "south_texture_path", flag |-> "south_texture_set"],
      [id |-> <<"W", "E">>, path |-> "west_texture_path", flag |-> "west_texture_set"],
      [id |-> <<"E", "A">>, path |-> "east_texture_path", flag |-> "east_texture_set"] }

\* every character of s is a space, a tab or a newline
Blank(s) == \A i \in 1..Len(s) : s[i] \in {" ", "\t", "\n"}

\* p is s without its leading and trailing spaces, tabs and newlines
Stripped(s, p) ==
    /\ p # <<>> /\ ~Blank(<<p[1]>>) /\ ~Blank(<<p[Len(p)]>>)
    /\ \E a \in 0..Len(s) :
           /\ a + Len(p) <= Len(s)
           /\ Blank(SubSeq(s, 1, a))
           /\ SubSeq(s, a + 1, a + Len(p)) = p
           /\ Blank(SubSeq(s, a + Len(p) + 1, Len(s)))

\* the step reads, in header mode, a line made of the texture identifier t
\* and, after one space, a remainder
ReadsTexture(t) ==
    /\ pc = "reading" /\ parsing_map_phase = 0 /\ ~at_eof'
    /\ Len(last_line') >= 2 /\ SubSeq(last_line', 1, 2) = t.id
    /\ Len(last_line') >= 3 => last_line'[3] = " "

\* C24: for each of NO, SO, WE, EA, a header line whose remainder is empty
\* once its spaces, tabs and newlines are trimmed makes parse_cub_file return
\* 0; a line with another remainder, its identifier not stored yet, stores as
\* the path the remainder without its leading and trailing spaces, tabs and
\* newlines, every other character kept, and the parse goes on.
C24_TexturePathTrimmed ==
    [][ \A t \in TextureIds :
          ReadsTexture(t) =>
              IF Blank(SubSeq(last_line', 4, Len(last_line')))
              THEN parse_ret' = 0 /\ pc' = "returned"
              ELSE config[t.flag] = 0 =>
                       /\ Stripped(SubSeq(last_line', 4, Len(last_line')),
                                   config'[t.path])
                       /\ config'[t.flag] # 0
                       /\ pc' = "reading" ]_vars

\* C24 witness: the line "NO  b c" followed by a tab and a newline was read
\* and the path "b c" stored
C24_Witness ==
    /\ pc = "reading" /\ config.north_texture_path = <<"b", " ", "c">>
    /\ last_line = <<"N", "O", " ", " ", "b", " ", "c">>

\* C26: main called with an argument count other than 2 (the program name
\* and one scene file) prints the usage message and returns 1: no file is
\* opened or parsed, no stage of the display is initialised, nothing is
\* allocated; with a count of 2 the usage message is never printed.
C26_UsageOnBadArgc ==
    /\ (caller = "main" /\ argc # 2) =>
           /\ pc \in {"main", "exited"}
           /\ parse_ret = -1 /\ allocd = {} /\ config = InitConfig
           /\ ran = {} /\ game = InitGame
           /\ pc = "exited" =>
                  usage_printed /\ exit_status # 0 /\ exit_status # -1
    /\ argc = 2 => ~usage_printed
    /\ pc = "main" => ~usage_printed

\* C26 witness: main was called with two arguments after the program name
\* and has returned
C26_Witness ==
    /\ caller = "main" /\ argc = 3 /\ pc = "exited"
    /\ usage_printed /\ exit_status = 1

\* C30: parse_cub_file returns 0 when an allocation fails: a call in which
\* add_map_line failed to allocate the node or the string of a row does not
\* return 1 with a grid that misses that row.
C30_LostRowFailsParse ==
    (caller = "test" /\ pc = "returned" /\ row_lost) => parse_ret = 0

\* C31: when load_all_textures fails after some textures were loaded, every
\* texture image that was loaded is destroyed before the process exits, as
\* the display resources and the config are.
C31_LoadedTexturesReleased ==
    (pc = "exited" /\ exit_status = 1 /\ "load_all_textures" \in ran)
        => \A k \in 1..4 : TexObj(k) \notin allocd

\* the step is the end of the reading loop: get_next_line returned NULL
ReachesEof == pc = "reading" /\ at_eof'

\* C11: at end of input parse_cub_file returns 0 when one of the six header
\* fields is unset or when the line list is empty; and when it has returned 1
\* map_data is not NULL and map_height and map_width are positive.
C11_EndOfInput ==
    /\ [](pc = "returned" /\ parse_ret = 1 =>
              /\ config.map_data # NULL
              /\ config.map_height > 0 /\ config.map_width > 0)
    /\ [][ReachesEof /\ (~SixFieldsSet \/ map_lines = <<>>) =>
              parse_ret' = 0]_vars

\* C11 witness: the input ended in grid mode with the six fields set and no
\* line in the list (the node of the only grid row could not be allocated),
\* and parse_cub_file returned 0
C11_Witness ==
    /\ pc = "returned" /\ at_eof /\ parse_ret = 0
    /\ SixFieldsSet /\ parsing_map_phase = 1 /\ config.map_height = 0

\* the step reads a non-blank line that parse_cub_file classifies as a grid
\* row: in grid mode, or in header mode with the six fields set and a first
\* character '1' or '0'
ReadsGridRow ==
    /\ pc = "reading" /\ ~at_eof' /\ last_line' # <<>>
    /\ parsing_map_phase = 1 \/ (ReadsGridStart /\ SixFieldsSet)

\* C12: a grid row holding a character outside {'0','1',' ','N','S','E','W'}
\* makes parse_cub_file return 0 in the step that reads it; the row has not
\* been added to the line list, and neither convert_map_lines_to_array nor
\* validate_map has run (map_data, map_height and player_found are as
\* init_config left them).
C12_InvalidCharFailsFast ==
    [][ (/\ ReadsGridRow
         /\ \E i \in 1..Len(last_line') :
                last_line'[i] \notin {"0", "1", " ", "N", "S", "E", "W"}) =>
            /\ parse_ret' = 0 /\ pc' = "returned"
            /\ LineStep(config, Heap, map_lines, parsing_map_phase, last_line',
                        "none").lines = map_lines
            /\ config'.map_data = NULL /\ config'.map_height = 0
            /\ config'.player_found = 0 /\ grid0' = grid0 ]_vars

\* C12 witness: the row "1X1" was read in grid mode and the parse returned 0
\* on it
C12_Witness ==
    /\ pc = "returned" /\ ~at_eof /\ parse_ret = 0
    /\ parsing_map_phase = 1 /\ last_line = <<"1", "X", "1">>
    /\ dup_seen = FALSE

\* C13: in grid mode every line read leaves the parser in grid mode and no
\* header field changes: the parse returns 0 on the line or the line is
\* appended to the line list as a row; and once a header line has been read
\* in grid mode parse_cub_file returns 0.
C13_GridModeIsFinal ==
    /\ [][ (pc = "reading" /\ parsing_map_phase = 1 /\ ~at_eof') =>
               /\ parsing_map_phase' = 1
               /\ \/ parse_ret' = 0
                  \/ /\ config' = config
                     /\ map_lines' = Append(map_lines, last_line') ]_vars
    /\ [](dup_seen /\ parsing_map_phase = 1 /\ pc # "reading" => parse_ret = 0)

\* C13 witness: the header line "WE 1" was read after two rows and was
\* stored as the third row, the parser still reading in grid mode
C13_Witness ==
    /\ pc = "reading" /\ parsing_map_phase = 1 /\ SixFieldsSet
    /\ last_line = <<"W", "E", " ", "1">>
    /\ Len(map_lines) = 3 /\ map_lines[3] = last_line

\* C14: after validate_map returned 1 every cell of the grid is '0', '1' or
\* space; a cell that held a marker holds '0', and every other cell holds
\* what it held before the call.
C14_MarkerBecomesFloor ==
    vret = 1 =>
        \A c \in GridCells :
            /\ config.map_data[c[1] + 1][c[2] + 1] \in {"0", "1", " "}
            /\ config.map_data[c[1] + 1][c[2] + 1] =
                   IF c \in Markers0 THEN "0" ELSE grid0[c[1] + 1][c[2] + 1]

\* C14 witness: a validated grid whose marker W has become '0', beside a
\* '0' cell that was there before
C14_Witness ==
    /\ pc = "validated" /\ vret = 1
    /\ \E c \in Markers0 : /\ grid0[c[1] + 1][c[2] + 1] = "W"
                          /\ config.map_data[c[1] + 1][c[2] + 1] = "0"
    /\ \E c \in GridCells \ Markers0 : grid0[c[1] + 1][c[2] + 1] = "0"

\* C16: after validate_map returned 1 the grid had one marker, at row r and
\* column c; player_start_x is c + 0.5, player_start_y is r + 0.5,
\* player_orientation is the letter of the marker, and init_player_state
\* puts the observer on that point.
C16_StartAtMarkerCentre ==
    vret = 1 =>
        \E m \in Markers0 :
            /\ Markers0 = {m}
            /\ config.player_start_x = m[2] * FP + FP \div 2
            /\ config.player_start_y = m[1] * FP + FP \div 2
            /\ config.player_orientation = grid0[m[1] + 1][m[2] + 1]
            /\ pc = "player_set" =>
                   /\ game.player_x = m[2] * FP + FP \div 2
                   /\ game.player_y = m[1] * FP + FP \div 2

\* C16 witness: the marker E on row 1, column 2, and the observer at
\* (2.5, 1.5)
C16_Witness ==
    /\ pc = "player_set" /\ vret = 1
    /\ grid0[2][3] = "E"
    /\ game.player_x = 2 * FP + FP \div 2 /\ game.player_y = FP + FP \div 2

\* the direction and the camera plane the spec gives for orientation o
SpecDirection(o) ==
    CASE o = "N" -> <<0, 0 - FP>>
      [] o = "S" -> <<0, FP>>
      [] o = "E" -> <<FP, 0>>
      [] o = "W" -> <<0 - FP, 0>>

SpecPlane(o) ==
    CASE o = "N" -> <<(66 * FP) \div 100, 0>>
      [] o = "S" -> <<0 - (66 * FP) \div 100, 0>>
      [] o = "E" -> <<0, (66 * FP) \div 100>>
      [] o = "W" -> <<0, 0 - (66 * FP) \div 100>>

\* C17: init_player_state sets the direction and the camera plane the table
\* gives for the orientation; the plane is perpendicular to the direction
\* and its length is 0.66.
C17_OrientationTable ==
    pc = "player_set" =>
        /\ <<game.dir_x, game.dir_y>> = SpecDirection(config.player_orientation)
        /\ <<game.plane_x, game.plane_y>> = SpecPlane(config.player_orientation)
        /\ game.dir_x * game.plane_x + game.dir_y * game.plane_y = 0
        /\ game.plane_x * game.plane_x + game.plane_y * game.plane_y =
               ((66 * FP) \div 100) * ((66 * FP) \div 100)

\* C17 witness: orientation S, direction (0, 1), plane (-0.66, 0)
C17_Witness ==
    /\ pc = "player_set" /\ config.player_orientation = "S"
    /\ game.dir_y = FP /\ game.plane_x < 0

\* the cell holding the point (x, y) is a Wall or lies outside the grid
BlockedAt(x, y) ==
    \/ x < 0 \/ x >= config.map_width * FP
    \/ y < 0 \/ y >= config.map_height * FP
    \/ config.map_data[(y \div FP) + 1][(x \div FP) + 1] = "1"

\* the step handles an event of key k
KeyStep(k) ==
    /\ pc = "loop" /\ held' = k
    /\ nkeys' # nkeys \/ reps' # reps

\* the displacement of a key event along v, mult being 1 or -1: x moves iff
\* the cell at (new x, old y) is free, then y moves iff the cell at
\* (x just decided, new y) is free
Slides(vx, vy, mult) ==
    LET new_x == game.player_x + FMul(vx, MOVE_SPEED) * mult
        new_y == game.player_y + FMul(vy, MOVE_SPEED) * mult
    IN  /\ game'.player_x = IF BlockedAt(new_x, game.player_y)
                            THEN game.player_x ELSE new_x
        /\ game'.player_y = IF BlockedAt(game'.player_x, new_y)
                            THEN game.player_y ELSE new_y

\* C18: move_forward_backward (keys W, S, along the direction) and
\* strafe_left_right (keys D, A, along the camera plane) resolve the
\* displacement per axis, X before Y, each axis moving iff its own
\* destination cell is neither a Wall nor outside the grid.
C18_SlidePerAxis ==
    [][ /\ KeyStep("W") => Slides(game.dir_x, game.dir_y, 1)
        /\ KeyStep("S") => Slides(game.dir_x, game.dir_y, -1)
        /\ KeyStep("D") => Slides(game.plane_x, game.plane_y, 1)
        /\ KeyStep("A") => Slides(game.plane_x, game.plane_y, -1) ]_vars

\* C18 witness: after turning, W held for six events towards the north
\* Wall of the room: each event would move y by more than 0.09, so one of
\* them was refused on Y while X went on moving
C18_Witness ==
    /\ pc = "loop" /\ nkeys = 2 /\ held = "W" /\ reps = 6
    /\ game.dir_x # 0 /\ game.dir_y < 0 - (9 * FP) \div 10
    /\ game.player_y >= FP
    /\ Abs(game.player_x - (FP + FP \div 2)) >= 6 * (FMul(Abs(game.dir_x), MOVE_SPEED))
    /\ game.player_x # FP + FP \div 2

\* the kinds of the objects call number i of the teardown released
ReleasedKinds(i) == {o[1] : o \in teardown[i][2]}

SpecTexture(side, dx, dy) ==
    CASE side = 0 /\ dx > 0 -> {"west_texture"}
      [] side = 0 /\ dx < 0 -> {"east_texture"}
      [] side = 1 /\ dy > 0 -> {"north_texture"}
      [] side = 1 /\ dy < 0 -> {"south_texture"}
      [] OTHER -> {}

\* C20: for every stripe drawn, the texture is the one the table gives for
\* the face that was hit and the sign of the ray direction on that axis.
C20_TextureByFace ==
    \A i \in 1..Len(frame) :
        frame[i].drawn =>
            frame[i].tex \in SpecTexture(frame[i].ray.side, frame[i].ray.ray_dir_x,
                                         frame[i].ray.ray_dir_y)

\* C20 witness: a frame with a stripe of the west texture (an X face hit by
\* a ray going east) and a stripe of the north texture (a Y face hit by a
\* ray going south)
C20_Witness ==
    /\ pc = "loop"
    /\ \E i \in 1..Len(frame) :
           /\ frame[i].drawn /\ frame[i].tex = "west_texture"
           /\ frame[i].ray.side = 0 /\ frame[i].ray.ray_dir_x > 0
    /\ \E i \in 1..Len(frame) :
           /\ frame[i].drawn /\ frame[i].tex = "north_texture"
           /\ frame[i].ray.side = 1 /\ frame[i].ray.ray_dir_y > 0

----------------------------------------------------------------------------
(* Properties of the raycaster *)

\* the ray of column col as perform_dda held it n iterations into its loop
RECURSIVE DdaPrefix(_, _, _)
DdaPrefix(cfg, ray, n) ==
    IF n = 0 THEN ray ELSE DdaPrefix(cfg, DdaStep(cfg, ray), n - 1)

\* the side_dist of the axis column col was hit on, as it was before the
\* last iteration of the DDA
SideDistBeforeHit(col) ==
    LET b == DdaPrefix(config, [InitRay(game, col.x, 0) EXCEPT !.hit = 0],
                       col.ray.iters - 1)
    IN  IF col.ray.side = 0 THEN b.side_dist_x ELSE b.side_dist_y

\* C21: for every Wall hit whose distance cast_all_rays computes, the
\* distance before clamping is the side_dist of the hit axis minus the delta
\* of that axis, which is the side_dist that axis had before the last DDA
\* iteration and is not negative; the distance the stripe is drawn with is
\* that value, or 0.01 when it is smaller, so it is never below 0.01.
C21_PerpDistanceClamped ==
    \A i \in 1..Len(frame) :
        (pc = "loop" /\ frame[i].drawn) =>
            LET r == frame[i].ray
                d == IF r.side = 0 THEN r.side_dist_x - r.delta_dist_x
                     ELSE r.side_dist_y - r.delta_dist_y
            IN  /\ StoppedOnWall(frame[i]) /\ r.iters >= 1
                /\ d = SideDistBeforeHit(frame[i])
                /\ d >= 0
                /\ r.perp_wall_dist = (IF d < CLAMP_MIN THEN CLAMP_MIN ELSE d)
                /\ r.perp_wall_dist >= CLAMP_MIN

\* C21 witness: the observer stands on the line y = 1 and a ray going north
\* meets the Wall at distance 0: the stripe is drawn with 0.01
C21_Witness ==
    /\ pc = "loop" /\ game.player_y = FP
    /\ \E i \in 1..Len(frame) :
           /\ frame[i].drawn /\ frame[i].ray.side = 1
           /\ frame[i].ray.side_dist_y - frame[i].ray.delta_dist_y = 0
           /\ frame[i].ray.perp_wall_dist = CLAMP_MIN

----------------------------------------------------------------------------
(* calculate_wall_x and calculate_texture_x alone: every fraction of a cell,
   both faces, both signs of the ray direction, every small texture width *)

MaxTexWidth == 3

\* the coordinates of the observer: every point of the cell [1, 2)
TexCoords == {FP + k : k \in 0..(FP - 1)}

\* the distances and the ray directions tried
TexDists == {CLAMP_MIN, FP + FP \div 2}
TexDirs == {0 - FP, PLANE_LEN}

InitTexture ==
    /\ caller = "test" /\ argc = 1 /\ pc = "texture_x"
    /\ \E p \in TexCoords, side \in {0, 1}, d \in TexDists,
          dx \in TexDirs, dy \in TexDirs, w \in 1..MaxTexWidth :
           tex_in = [game |-> [player_x |-> p, player_y |-> p],
                     ray |-> [side |-> side, perp_wall_dist |-> d,
                              ray_dir_x |-> dx, ray_dir_y |-> dy],
                     width |-> w]
    /\ tex_out = -1
    /\ stash = NULL /\ fd_data = <<>> /\ offset = 0 /\ queue = <<>>
    /\ config = InitConfig
    /\ map_lines = <<>> /\ parsing_map_phase = 0
    /\ last_line = <<>> /\ dup_seen = FALSE /\ at_eof = FALSE
    /\ row_lost = FALSE
    /\ parse_ret = -1
    /\ allocd = {} /\ dblfree = FALSE
    /\ ran = {} /\ exit_status = -1
    /\ game = InitGame /\ frame = <<>>
    /\ nkeys = 0 /\ held = "" /\ reps = 0
    /\ teardown = <<>> /\ tick = <<>> /\ usage_printed = FALSE /\ key_budget = 0
    /\ grid0 = NULL /\ vret = -1 /\ cret = -1
    /\ color_in = <<>> /\ color_out = [ok |-> FALSE]

\* the two calls of draw_textured_stripe: wall_x = calculate_wall_x(g, r);
\* tex_x = calculate_texture_x(r, tex, wall_x)
TextureXCall ==
    /\ pc = "texture_x"
    /\ tex_out' = CalculateTextureX(tex_in.ray, tex_in.width,
                                    CalculateWallX(tex_in.game, tex_in.ray))
    /\ pc' = "texture_x_done"
    /\ UNCHANGED <<caller, argc, usage_printed, readerVars, config, parseVars, allocd, dblfree, ran,
                   exit_status, gameVars, key_budget, grid0, vret, cret,
                   color_in, color_out, tex_in>>

NextTexture == TextureXCall

SpecTexX == InitTexture /\ [][NextTexture]_vars

\* the hit of tex_in is on a face whose texture is mirrored: west-facing
\* (X face, ray going east) or south-facing (Y face, ray going north)
Mirrored ==
    \/ tex_in.ray.side = 0 /\ tex_in.ray.ray_dir_x > 0
    \/ tex_in.ray.side = 1 /\ tex_in.ray.ray_dir_y < 0

\* C22: the fraction calculate_wall_x yields is in [0, 1), and for it and
\* any texture width >= 1 calculate_texture_x returns a column in
\* [0, width): the column floor(wall_x * width) when the face is not
\* mirrored, and width - 1 minus that column when it is.
C22_TextureColumnInRange ==
    pc = "texture_x_done" =>
        LET wall_x == CalculateWallX(tex_in.game, tex_in.ray)
            col == (wall_x * tex_in.width) \div FP
        IN  /\ wall_x >= 0 /\ wall_x < FP
            /\ tex_out >= 0 /\ tex_out < tex_in.width
            /\ tex_out = IF Mirrored THEN tex_in.width - 1 - col ELSE col

\* C22 witness: a west-facing hit at fraction 0 of a texture three columns
\* wide: the mirrored column is the last one, 2
C22_Witness ==
    /\ pc = "texture_x_done" /\ Mirrored /\ tex_in.width = 3
    /\ CalculateWallX(tex_in.game, tex_in.ray) = 0
    /\ tex_out = 2

----------------------------------------------------------------------------
(* Properties of the render tick *)

\* the colour draw_floor_and_ceiling gives row y of the screen
BackgroundColor(y) ==
    IF y < ScreenH \div 2
    THEN config.ceiling_color_r * 65536 + config.ceiling_color_g * 256
         + config.ceiling_color_b
    ELSE config.floor_color_r * 65536 + config.floor_color_g * 256
         + config.floor_color_b

\* C25: the events of a render tick are, in this order: the fill, which
\* leaves the ceiling colour on every pixel of the rows [0, screen_height/2)
\* and the floor colour on every pixel of the rows from screen_height/2 on;
\* the columns 0 .. screen_width - 1 of cast_all_rays in ascending order, none
\* of which changes a pixel of another column; and, after the last column,
\* one mlx_put_image_to_window, of the buffer as the last column left it.
C25_RenderTickOrder ==
    (pc = "loop" /\ tick # <<>>) =>
        /\ Len(tick) = ScreenW + 2
        /\ tick[1].op = "draw_floor_and_ceiling"
        /\ \A y \in 0..(ScreenH - 1) : \A x \in 0..(ScreenW - 1) :
               tick[1].image[y + 1][x + 1] = BackgroundColor(y)
        /\ \A k \in 1..ScreenW :
               /\ tick[k + 1].op = "column" /\ tick[k + 1].x = k - 1
               /\ \A y \in 1..ScreenH : \A x \in (1..ScreenW) \ {k} :
                      tick[k + 1].image[y][x] = tick[k].image[y][x]
        /\ tick[ScreenW + 2].op = "mlx_put_image_to_window"
        /\ tick[ScreenW + 2].image = tick[ScreenW + 1].image
        /\ Cardinality({k \in 1..Len(tick) :
                            tick[k].op = "mlx_put_image_to_window"}) = 1

\* C25 witness: a tick whose presented buffer shows, in one column, the
\* ceiling colour on the top row and a wall stripe below it, down to the
\* bottom row that the fill had given the floor colour
C25_Witness ==
    /\ pc = "loop" /\ Len(tick) = ScreenW + 2
    /\ \E x \in 1..ScreenW :
           /\ tick[ScreenW + 2].image[1][x] = BackgroundColor(0)
           /\ tick[ScreenW + 2].image[2][x] = Texel
           /\ tick[1].image[ScreenH][x] = BackgroundColor(ScreenH - 1)
           /\ tick[ScreenW + 2].image[ScreenH][x] = Texel

----------------------------------------------------------------------------
(* libft/get_next_line.c under parse_cub_file: the test program parses
   several scene files one after the other; every open yields the same
   descriptor number, the earlier descriptor being closed by then *)

BUFFER_SIZE == 42

\* the number of parse_cub_file calls of one run of the test program
MaxParses == 2

\* read_to_stash: read BUFFER_SIZE bytes at a time until the stash holds a
\* newline or read returns 0
RECURSIVE ReadToStash(_, _, _, _)
ReadToStash(st, bytes, off, bytes_read) ==
    IF bytes_read > 0 /\ ~(\E i \in 1..Len(st) : st[i] = "\n")
    THEN LET n == Min({BUFFER_SIZE, Len(bytes) - off})
         IN  ReadToStash(st \o SubSeq(bytes, off + 1, off + n), bytes,
                         off + n, n)
    ELSE [stash |-> st, offset |-> off]

\* extract_line: the stash up to its first newline included, NULL for an
\* empty stash
ExtractLine(st) ==
    IF st = <<>> THEN NULL
    ELSE IF \E i \in 1..Len(st) : st[i] = "\n"
    THEN SubSeq(st, 1, Min({i \in 1..Len(st) : st[i] = "\n"}))
    ELSE st

\* update_stash: what follows the first newline, NULL without a newline
UpdateStash(st) ==
    IF \E i \in 1..Len(st) : st[i] = "\n"
    THEN SubSeq(st, Min({i \in 1..Len(st) : st[i] = "\n"}) + 1, Len(st))
    ELSE NULL

\* get_next_line(fd) with st = stash[fd], the descriptor being open on bytes
\* at the offset off
GetNextLine(st, bytes, off) ==
    LET r == ReadToStash(st, bytes, off, 1)
        line == ExtractLine(r.stash)
    IN  IF line = NULL
        THEN [line |-> NULL, stash |-> NULL, offset |-> r.offset]
        ELSE [line |-> line, stash |-> UpdateStash(r.stash),
              offset |-> r.offset]

\* the bytes of a file of the given lines, each ended by a newline
RECURSIVE Text(_)
Text(lines) ==
    IF lines = <<>> THEN <<>>
    ELSE Head(lines) \o <<"\n">> \o Text(Tail(lines))

\* the scene files of the test program: a valid scene, the same scene after
\* a line of an unknown identifier, and a grid row before any header
ValidScene ==
    Text(SceneHeader \o << <<"1", "1", "1">>, <<"1", "N", "1">>,
                          <<"1", "1", "1">> >>)
UnknownIdScene == Text(<< <<"X", " ", "a">> >>) \o ValidScene
GridFirstScene == Text(<< <<"1", "1", "1">> >>)
TestScenes == {ValidScene, UnknownIdScene, GridFirstScene}

InitReader ==
    /\ caller = "test" /\ argc = 1
    /\ pc = "main"
    /\ queue \in [1..MaxParses -> TestScenes]
    /\ stash = NULL /\ fd_data = <<>> /\ offset = 0
    /\ config = InitConfig
    /\ map_lines = <<>> /\ parsing_map_phase = 0
    /\ last_line = <<>> /\ dup_seen = FALSE /\ at_eof = FALSE
    /\ row_lost = FALSE
    /\ parse_ret = -1
    /\ allocd = {} /\ dblfree = FALSE
    /\ ran = {} /\ exit_status = -1
    /\ game = InitGame /\ frame = <<>> /\ nkeys = 0 /\ held = "" /\ reps = 0
    /\ teardown = <<>> /\ tick = <<>> /\ usage_printed = FALSE
    /\ key_budget = 0
    /\ grid0 = NULL /\ vret = -1 /\ cret = -1
    /\ color_in = <<>> /\ color_out = [ok |-> FALSE]
    /\ tex_in = NoTexture /\ tex_out = -1

\* a test calls parse_cub_file on the next scene file: open succeeds
ReaderOpen ==
    /\ queue # <<>>
    /\ ParseOpenOn(TRUE)
    /\ fd_data' = Head(queue) /\ queue' = Tail(queue) /\ offset' = 0
    /\ UNCHANGED stash

\* line = get_next_line(fd) returns a line and the loop body runs on it
ReaderLine ==
    \E g \in {GetNextLine(stash, fd_data, offset)} :
        /\ g.line # NULL
        /\ ParseLineOn(g.line, "none")
        /\ stash' = g.stash /\ offset' = g.offset
        /\ UNCHANGED <<fd_data, queue>>

\* line = get_next_line(fd) returns NULL and the loop ends
ReaderEof ==
    \E g \in {GetNextLine(stash, fd_data, offset)} :
        /\ g.line = NULL
        /\ ParseEofOn("none")
        /\ stash' = g.stash /\ offset' = g.offset
        /\ UNCHANGED <<fd_data, queue>>

\* the test ends with reset_and_free_config; main calls the next test
ReaderNextTest == queue # <<>> /\ TestResetThen("main", -1)

\* the last test ends and main returns
ReaderLastTest == queue = <<>> /\ TestResetThen("exited", 0)

NextReader ==
    \/ ReaderOpen
    \/ ReaderLine
    \/ ReaderEof
    \/ ReaderNextTest
    \/ ReaderLastTest

SpecReader == InitReader /\ [][NextReader]_vars

\* the lines get_next_line yields for a descriptor freshly opened on bytes
RECURSIVE LinesFrom(_, _, _)
LinesFrom(st, bytes, off) ==
    LET g == GetNextLine(st, bytes, off)
    IN  IF g.line = NULL THEN <<>>
        ELSE <<g.line>> \o LinesFrom(g.stash, bytes, g.offset)

\* C27: the result of parse_cub_file depends only on the contents of the
\* file it is called on: when a call returns, its return value is the one
\* the parse of that file's own lines gives, whatever call came before, and
\* no line read by the call is pending data of an earlier file
C27_ResultDependsOnFileOnly ==
    (caller = "test" /\ pc = "returned" /\ fd_data # <<>>)
        => parse_ret = ParseCubFile(LinesFrom(NULL, fd_data, 0)).ret

----------------------------------------------------------------------------
(* The observer walking and turning, with no frame drawn in between, in the
   grids of WalkGrids that validate_map accepts *)

\* a room whose first row is shorter than the others, so that the grid has a
\* space cell, and a row that ends on the marker, which leaves a space cell
\* on the right of the marker
WalkGrids ==
    { << <<"1", "1", "1", "1">>, <<"1", "E", "0", "1", "1">>,
         <<"1", "0", "0", "0", "1">>, <<"1", "1", "1", "1", "1">> >>,
      << <<"1", "1", "1", "1">>, <<"1", "0", "E">>,
         <<"1", "1", "1", "1">> >> }

WalkKeys == {"W", "S", "A", "D", "LEFT", "RIGHT"}

InitWalk ==
    /\ caller = "main" /\ argc = 2 /\ pc = "loop"
    /\ \E g \in WalkGrids :
         \E p \in {ParseCubFile(SceneHeader \o g)} :
             /\ p.ret = 1
             /\ \E s \in {EnterLoop(p)} :
                    /\ config = s.config /\ game = s.game
                    /\ allocd = s.heap.live /\ dblfree = s.heap.dbl
                    /\ grid0 = s.grid
    /\ map_lines = <<>> /\ parsing_map_phase = 1
    /\ last_line = NULL /\ dup_seen = FALSE /\ at_eof = TRUE
    /\ row_lost = FALSE
    /\ parse_ret = 1
    /\ ran = {"init_player_state", "init_mlx", "load_all_textures"}
    /\ exit_status = -1
    /\ frame = <<>> /\ nkeys = 0 /\ held = "" /\ reps = 0
    /\ teardown = <<>> /\ tick = <<>> /\ usage_printed = FALSE
    /\ key_budget = MaxKeys
    /\ vret = -1 /\ cret = -1
    /\ color_in = <<>> /\ color_out = [ok |-> FALSE]
    /\ tex_in = NoTexture /\ tex_out = -1
    /\ stash = NULL /\ fd_data = <<>> /\ offset = 0 /\ queue = <<>>

NextWalk == \E keycode \in WalkKeys : HandleKeypress(keycode)

SpecWalk == InitWalk /\ [][NextWalk]_vars

\* C28: after any sequence of W/A/S/D moves and left/right rotations from
\* the centre of the marker cell of a validated grid, the cell the observer
\* stands on (truncated x, truncated y) is inside the grid and is a Floor
\* cell '0': never a space cell, never a Wall.
C28_ObserverOnFloor ==
    pc = "loop"
        => /\ ToInt(game.player_x) \in 0..(config.map_width - 1)
           /\ ToInt(game.player_y) \in 0..(config.map_height - 1)
           /\ game.player_x >= 0 /\ game.player_y >= 0
           /\ Cell(config, ToInt(game.player_y), ToInt(game.player_x)) = "0"

\* C28 witness: in the grid with a space cell, the observer has left the
\* marker cell for the Floor cell on its right and has turned left there
C28_Witness ==
    /\ pc = "loop" /\ nkeys = 2
    /\ \E y \in 1..config.map_height : \E x \in 1..config.map_width :
           config.map_data[y][x] = " "
    /\ ToInt(game.player_x) = 2 /\ ToInt(game.player_y) = 1
    /\ ToInt(game.player_x) # ToInt(config.player_start_x)
    /\ held = "LEFT" /\ reps = 6 /\ game.dir_y < 0
    /\ Cell(config, 0, 3) = "1" /\ Cell(config, 0, 4) = " "

----------------------------------------------------------------------------
(* One ray of cast_all_rays, for an observer anywhere on a Floor cell of a
   grid of WalkGrids that validate_map accepts, looking along one of the
   four orientations or turned from it by one of RayTurns *)

\* rotate_player called n times to the right
RECURSIVE Turned(_, _)
Turned(gm, n) == IF n = 0 THEN gm ELSE Turned(RotatePlayer(gm, 1), n - 1)

\* numbers of rotations from each of the four orientations: none, and two
\* slanted directions
RayTurns == {0, 8, 16}

\* where the observer stands inside its cell: on the cell's edge, in the
\* middle, next to the far edge
RayOffsets == {0, FP \div 2, FP - 1}

InitRayCast ==
    /\ caller = "main" /\ argc = 2 /\ pc = "ray"
    /\ \E g \in WalkGrids :
         \E p \in {ParseCubFile(SceneHeader \o g)} :
             /\ p.ret = 1
             /\ \E s \in {EnterLoop(p)} :
                    /\ config = s.config
                    /\ allocd = s.heap.live /\ dblfree = s.heap.dbl
                    /\ grid0 = s.grid
                    /\ \E y \in 0..(s.config.map_height - 1),
                          x \in 0..(s.config.map_width - 1),
                          ox \in RayOffsets, oy \in RayOffsets,
                          o \in {"N", "S", "E", "W"}, n \in RayTurns :
                           /\ Cell(s.config, y, x) = "0"
                           /\ game =
                                Turned(InitPlayerState(s.game,
                                    [s.config EXCEPT
                                        !.player_start_x = x * FP + ox,
                                        !.player_start_y = y * FP + oy,
                                        !.player_orientation = o]), n)
    /\ map_lines = <<>> /\ parsing_map_phase = 1
    /\ last_line = NULL /\ dup_seen = FALSE /\ at_eof = TRUE
    /\ row_lost = FALSE
    /\ parse_ret = 1
    /\ ran = {"init_player_state", "init_mlx", "load_all_textures"}
    /\ exit_status = -1
    /\ frame = <<>> /\ nkeys = 0 /\ held = "" /\ reps = 0
    /\ teardown = <<>> /\ tick = <<>> /\ usage_printed = FALSE
    /\ key_budget = 0
    /\ vret = -1 /\ cret = -1
    /\ color_in = <<>> /\ color_out = [ok |-> FALSE]
    /\ tex_in = NoTexture /\ tex_out = -1
    /\ stash = NULL /\ fd_data = <<>> /\ offset = 0 /\ queue = <<>>

\* one pass of the loop of cast_all_rays, for the column x
RayCall(x, junk) ==
    /\ pc = "ray"
    /\ frame' = <<CastColumn(game, config, x, junk)>>
    /\ pc' = "ray_done"
    /\ UNCHANGED <<caller, argc, usage_printed, readerVars, config, parseVars,
                   allocd, dblfree, ran, exit_status, game, nkeys, held, reps,
                   teardown, tick, key_budget, grid0, unitVars>>

NextRayCast == \E x \in 0..(ScreenW - 1), junk \in JunkValues : RayCall(x, junk)

SpecRayCast == InitRayCast /\ [][NextRayCast]_vars

\* the cell c = <<x, y>> is inside the grid and holds ch
CellIs(c, ch) ==
    /\ c[1] >= 0 /\ c[1] < config.map_width
    /\ c[2] >= 0 /\ c[2] < config.map_height
    /\ Cell(config, c[2], c[1]) = ch

\* C29: for an observer on a Floor cell of a validated grid, the ray of
\* perform_dda ends on a Wall cell inside the grid: every cell it visited
\* before is a Floor cell, none is a space cell or outside the grid, and the
\* out-of-bounds branch was not taken.
C29_RayEndsOnWall ==
    pc = "ray_done"
        => LET ray == frame[1].ray
           IN  /\ ray.hit = 1 /\ ~ray.oob
               /\ ray.iters >= 1 /\ Len(ray.cells) = ray.iters + 1
               /\ CellIs(<<ray.map_x, ray.map_y>>, "1")
               /\ ray.cells[Len(ray.cells)] = <<ray.map_x, ray.map_y>>
               /\ \A k \in 1..ray.iters : CellIs(ray.cells[k], "0")

\* C29 witness: in the grid with a space cell, a ray that crossed the three
\* Floor cells of the long row and ended on the Wall that closes the row
C29_Witness ==
    /\ pc = "ray_done"
    /\ Cell(config, 0, 4) = " "
    /\ frame[1].ray.iters >= 3
    /\ frame[1].ray.hit = 1
    /\ <<frame[1].ray.map_x, frame[1].ray.map_y>> = <<4, 2>>
    /\ \A k \in 1..3 : frame[1].ray.cells[k] = <<k, 2>>

----------------------------------------------------------------------------
(* The texture rows draw_textured_stripe samples, for a texture of any
   height up to MaxTexHeight and a wall at any of the distances of
   StripeDists *)

MaxTexHeight == 4

\* a & b for a, b >= 0
RECURSIVE BitAnd(_, _)
BitAnd(a, b) ==
    IF a = 0 \/ b = 0 THEN 0
    ELSE 2 * BitAnd(a \div 2, b \div 2)
         + (IF a % 2 = 1 /\ b % 2 = 1 THEN 1 ELSE 0)

\* the drawing loop of draw_textured_stripe from row y_coord to draw_e: for
\* each screen row, the texture position and the texture row read
RECURSIVE TexRowsFrom(_, _, _, _, _)
TexRowsFrom(height, step, tex_pos, y_coord, draw_e) ==
    IF y_coord > draw_e THEN <<>>
    ELSE LET masked == BitAnd(ToInt(tex_pos), height - 1)
             tex_y == IF masked < 0 THEN 0 ELSE masked
         IN  <<[y_coord |-> y_coord, tex_pos |-> tex_pos, tex_y |-> tex_y]>>
             \o TexRowsFrom(height, step, tex_pos + step, y_coord + 1, draw_e)

\* draw_textured_stripe from line_h on, for a texture of height rows and a
\* wall at perp_wall_dist: the texture rows of the stripe, top to bottom
TexRows(height, perp_wall_dist) ==
    LET line_h == TruncDiv(ScreenH * FP, perp_wall_dist)
        s == TruncDiv(0 - line_h, 2) + ScreenH \div 2
        e == line_h \div 2 + ScreenH \div 2
        draw_s == IF s < 0 THEN 0 ELSE s
        draw_e == IF e >= ScreenH THEN ScreenH - 1 ELSE e
        step == TruncDiv(height * FP, line_h)
        tex_pos == (draw_s - ScreenH \div 2 + line_h \div 2) * step
    IN  TexRowsFrom(height, step, tex_pos, draw_s, draw_e)

\* wall distances from a quarter of a cell to ScreenH cells, by quarters
StripeDists == {(k * FP) \div 4 : k \in 1..(4 * ScreenH)}

InitStripe ==
    /\ caller = "test" /\ argc = 1 /\ pc = "texture_y"
    /\ \E h \in 1..MaxTexHeight, d \in StripeDists :
           tex_in = [game |-> NoTexture.game,
                     ray |-> [NoTexture.ray EXCEPT !.perp_wall_dist = d],
                     width |-> 1, height |-> h]
    /\ tex_out = -1
    /\ stash = NULL /\ fd_data = <<>> /\ offset = 0 /\ queue = <<>>
    /\ config = InitConfig
    /\ map_lines = <<>> /\ parsing_map_phase = 0
    /\ last_line = <<>> /\ dup_seen = FALSE /\ at_eof = FALSE
    /\ row_lost = FALSE
    /\ parse_ret = -1
    /\ allocd = {} /\ dblfree = FALSE
    /\ ran = {} /\ exit_status = -1
    /\ game = InitGame /\ frame = <<>>
    /\ nkeys = 0 /\ held = "" /\ reps = 0
    /\ teardown = <<>> /\ tick = <<>> /\ usage_printed = FALSE /\ key_budget = 0
    /\ grid0 = NULL /\ vret = -1 /\ cret = -1
    /\ color_in = <<>> /\ color_out = [ok |-> FALSE]

\* the drawing loop of one stripe
StripeCall ==
    /\ pc = "texture_y"
    /\ tex_out' = TexRows(tex_in.height, tex_in.ray.perp_wall_dist)
    /\ pc' = "texture_y_done"
    /\ UNCHANGED <<caller, argc, usage_printed, readerVars, config, parseVars,
                   allocd, dblfree, ran, exit_status, gameVars, key_budget,
                   grid0, vret, cret, color_in, color_out, tex_in>>

NextStripe == StripeCall

SpecStripe == InitStripe /\ [][NextStripe]_vars

\* C32: for every texture height, the texture row read for each screen row
\* of a stripe is the integer part of the texture position modulo the
\* height, and so lies in [0, height).
C32_TexRowIsModHeight ==
    pc = "texture_y_done"
        => \A i \in 1..Len(tex_out) :
               /\ tex_out[i].tex_y = ToInt(tex_out[i].tex_pos) % tex_in.height
               /\ tex_out[i].tex_y >= 0 /\ tex_out[i].tex_y < tex_in.height

----------------------------------------------------------------------------
(* parse_cub_file on scene files with whitespace-only lines: the six header
   lines in any order, then up to MaxGridLines grid rows *)

MaxGridLines == 4

\* whitespace-only lines and the rows of the room of one cell, the row of
\* the marker indented by two spaces and followed by one
BlankGridLines ==
    { <<"\n">>, <<" ", "\t", "\n">>,
      <<"1", "1", "1", "\n">>, <<" ", " ", "1", "N", "1", " ", "\n">> }

\* a line of the scene files above
BlankSceneLines ==
    {SceneHeader[i] \o <<"\n">> : i \in 1..Len(SceneHeader)} \cup BlankGridLines

NextBlank ==
    \/ ParseOpen(TRUE)
    \/ \E raw \in BlankSceneLines :
           ParseLineUpTo(raw, "none", MaxGridLines) /\ UNCHANGED readerVars
    \/ ParseEof("none")
    \/ TestResetAndFree

SpecBlank == InitTest /\ [][NextBlank]_vars

\* the step reads a whitespace-only line
ReadsBlankLine == pc = "reading" /\ ~at_eof' /\ last_line' = <<>>

\* every cell of row is a space
AllSpaces(row) == \A j \in 1..Len(row) : row[j] = " "

\* C33: a whitespace-only line read before grid mode adds no grid row; a
\* line read in grid mode, whitespace-only or not, adds exactly one row
\* unless the parse fails on it, a whitespace-only one adding an empty row;
\* and when the parse succeeds map_height is the number of lines read from
\* the first grid row on, the rows of the whitespace-only lines being made
\* of space cells only.
C33_BlankLinesInGridMode ==
    /\ [][ReadsBlankLine /\ parsing_map_phase = 0 =>
              map_lines' = map_lines /\ parsing_map_phase' = 0]_vars
    /\ [][ReadsBlankLine /\ parsing_map_phase = 1 =>
              map_lines' = Append(map_lines, <<>>) /\ pc' = "reading"]_vars
    /\ [][pc = "reading" /\ pc' = "reading" /\ parsing_map_phase' = 1 =>
              Len(map_lines') = Len(map_lines) + 1]_vars
    /\ [][ReachesEof /\ parse_ret' = 1 =>
              /\ config'.map_height = Len(map_lines)
              /\ \A i \in 1..Len(map_lines) :
                     map_lines[i] = <<>> =>
                         /\ AllSpaces(config'.map_data[i])
                         /\ Len(config'.map_data[i]) = config'.map_width]_vars

\* C33 witness: the parse succeeded on a file whose three rows of the room
\* are followed by a whitespace-only line: four rows, the last all spaces
C33_Witness ==
    /\ pc = "returned" /\ at_eof /\ parse_ret = 1
    /\ config.map_height = 4 /\ config.map_width = 3
    /\ config.map_data[3] = <<"1", "1", "1">>
    /\ config.map_data[4] = <<" ", " ", " ">>

\* the step reads a line that is not whitespace-only and the loop goes on
\* in grid mode
StoresGridRow ==
    /\ pc = "reading" /\ pc' = "reading" /\ last_line' # <<>>
    /\ parsing_map_phase' = 1

\* line neither begins nor ends with a character ft_strtrim removes
Trimmed(line) ==
    line # <<>> => line[1] \notin TrimSetLine /\ line[Len(line)] \notin TrimSetLine

----------------------------------------------------------------------------
(* What the callbacks of the loop write *)

\* the step is handle_keypress on the key k
KeyEvent(k) ==
    pc = "loop" /\ held' = k /\ <<nkeys, reps>>' # <<nkeys, reps>>

----------------------------------------------------------------------------
(* validate_map called a second time on the config it has accepted, for the
   grids of InitMap *)

\* the second call validate_map(config)
ValidateMapAgain ==
    /\ pc = "validated" /\ vret = 1
    /\ \E v \in {ValidateMap(config)} :
           /\ vret' = v.ret
           /\ config' = v.config
    /\ pc' = "revalidated"
    /\ UNCHANGED <<caller, argc, usage_printed, readerVars, parseVars, allocd,
                   dblfree, ran, exit_status, gameVars, key_budget, grid0, cret,
                   color_in, color_out, tex_in, tex_out>>

NextAgain == ValidateMapCall \/ ValidateMapAgain

SpecAgain == InitMap /\ [][NextAgain]_vars

\* C36: a second validate_map on a config the first call accepted returns 0
\* with no start found, and leaves every grid cell and the stored start
\* position and orientation as the first call left them.
C36_ValidateNotRepeatable ==
    [][pc = "validated" /\ pc' = "revalidated" =>
           /\ vret' = 0 /\ config'.player_found = 0
           /\ config'.map_data = config.map_data
           /\ config'.player_start_x = config.player_start_x
           /\ config'.player_start_y = config.player_start_y
           /\ config'.player_orientation = config.player_orientation]_vars

\* C36 witness: the second call has returned 0 on a grid whose marker 'S'
\* the first call rewrote to '0' beside a second floor cell
C36_Witness ==
    /\ pc = "revalidated" /\ vret = 0
    /\ config.player_orientation = "S" /\ config.player_start_x > 0
    /\ \E y \in 1..config.map_height, x \in 1..(config.map_width - 1) :
           /\ grid0[y][x] = "S" /\ config.map_data[y][x] = "0"
           /\ grid0[y][x + 1] = "0"

----------------------------------------------------------------------------
(* validate_map on grids of three rows wide enough for two cells that are
   not side by side *)

MaxPocketW == 5

PocketChars == {"0", " ", "N"}

InitPocket ==
    /\ caller = "test" /\ argc = 1 /\ pc = "validate_map"
    /\ \E w \in 3..MaxPocketW :
         \E P \in SUBSET ((1..3) \X (1..w)) :
             /\ Cardinality(P) <= MaxOpen
             /\ \E f \in [P -> PocketChars] :
                    /\ grid0 = GridOf(3, w, P, f)
                    /\ config = [InitConfig EXCEPT !.map_data = GridOf(3, w, P, f),
                                                   !.map_height = 3,
                                                   !.map_width = w]
    /\ map_lines = <<>> /\ parsing_map_phase = 1
    /\ last_line = <<>> /\ dup_seen = FALSE /\ at_eof = FALSE
    /\ row_lost = FALSE
    /\ parse_ret = -1
    /\ allocd = {} /\ dblfree = FALSE
    /\ ran = {} /\ exit_status = -1
    /\ game = InitGame /\ frame = <<>>
    /\ nkeys = 0 /\ held = "" /\ reps = 0
    /\ teardown = <<>> /\ tick = <<>> /\ usage_printed = FALSE /\ key_budget = 0
    /\ vret = -1 /\ cret = -1
    /\ color_in = <<>> /\ color_out = [ok |-> FALSE]
    /\ tex_in = NoTexture /\ tex_out = -1
    /\ stash = NULL /\ fd_data = <<>> /\ offset = 0 /\ queue = <<>>

NextPocket == ValidateMapCall

SpecPocket == InitPocket /\ [][NextPocket]_vars

\* the cells of grid, as <<row, column>> from 1
CellsOf(grid) == (1..Len(grid)) \X (1..Len(grid[1]))

\* the cells of grid that are Floor or the marker
FloorCells(grid) ==
    {c \in CellsOf(grid) : grid[c[1]][c[2]] = "0" \/ IsMarker(grid[c[1]][c[2]])}

\* c and d are side by side or one above the other
Adjacent(c, d) ==
    \/ c[1] = d[1] /\ Abs(c[2] - d[2]) = 1
    \/ c[2] = d[2] /\ Abs(c[1] - d[1]) = 1

\* the Floor cells of grid that a walk from a cell of S reaches
RECURSIVE Flood(_, _)
Flood(grid, S) ==
    LET T == S \cup {c \in FloorCells(grid) : \E d \in S : Adjacent(c, d)}
    IN  IF T = S THEN S ELSE Flood(grid, T)

\* grid has one marker and a Floor cell no walk from the marker reaches
HasPocket(grid) ==
    LET starts == {c \in CellsOf(grid) : IsMarker(grid[c[1]][c[2]])}
    IN  /\ Cardinality(starts) = 1
        /\ FloorCells(grid) \ Flood(grid, starts) # {}

\* every Floor cell of grid, the marker included, is off the border and has
\* no space beside it
FourNeighbourRule(grid) ==
    \A c \in FloorCells(grid) :
        /\ c[1] > 1 /\ c[1] < Len(grid) /\ c[2] > 1 /\ c[2] < Len(grid[1])
        /\ \A d \in CellsOf(grid) : Adjacent(c, d) => grid[d[1]][d[2]] # " "

\* C37: a grid with one marker and a pocket of Floor cells that no walk from
\* the marker reaches is accepted by validate_map when every Floor cell
\* satisfies the four-neighbour rule.
C37_PocketAccepted ==
    (pc = "validated" /\ HasPocket(grid0) /\ FourNeighbourRule(grid0))
        => vret = 1

\* C37 witness: validate_map has accepted the row 1N101, whose Floor cell
\* is walled off from the marker
C37_Witness ==
    /\ pc = "validated" /\ vret = 1
    /\ grid0[2] = <<"1", "N", "1", "0", "1">>
    /\ HasPocket(grid0) /\ FourNeighbourRule(grid0)

====
